---------------------------- MODULE Spec2Model ----------------------------
(***************************************************************************)
(* Model of the data-access layer of the vehicle inventory application     *)
(* (src/controllers/extract_data.py over src/db/session.py).               *)
(*                                                                         *)
(* The relational store is a set of tables and every table is a set of     *)
(* rows.  The schema (its keys and foreign keys) is not among the sources: *)
(* the constraints below are the natural keys the specification lists      *)
(* (section 6) and the references of its data model (section 3).           *)
(*                                                                         *)
(* Money is an integer number of mills (1/1000 of a currency unit); the    *)
(* forms enter prices at two decimals (pages/add_parts_order.py:198-204).  *)
(***************************************************************************)
EXTENDS Integers, Sequences, FiniteSets, TLC

VARIABLES
    Vehicle,             \* table Vehicle: the VINs present
    Vendor,              \* table Vendor: the vendor names present
    PartsOrder,          \* table PartsOrder
    Part,                \* table Part
    Customer,            \* table Customer
    IndividualCustomer,  \* table IndividualCustomer
    BusinessCustomer,    \* table BusinessCustomer
    last_insert_id,      \* AUTO_INCREMENT counter of Customer.id
    SaleTransaction,     \* table SaleTransaction
    PurchaseTransaction, \* table PurchaseTransaction
    VehicleColor,        \* table VehicleColor
    ui,                  \* st.session_state of one browser session
    sess,                \* per connection: position, locals and uncommitted rows
    last                 \* the last call that returned: operation and result
                         \* (and the connection, where connections interleave)

custVars == <<Customer, IndividualCustomer, BusinessCustomer, last_insert_id>>
vars == <<Vehicle, Vendor, PartsOrder, Part, Customer, IndividualCustomer,
          BusinessCustomer, last_insert_id, SaleTransaction, PurchaseTransaction,
          VehicleColor, ui, sess, last>>

---------------------------------------------------------------------------
(* Bounds of the model *)

MaxOrders == 2          \* PartsOrder rows in the store
MaxParts == 2           \* parts supplied to one add_parts_order call
MaxCustomers == 5       \* values handed out by the AUTO_INCREMENT counter

(* Input domains *)

VINs == {"V1", "V2", "V9"}          \* "V9" is never in Vehicle
VendorNames == {"Acme", "Zeta"}     \* "Zeta" is never in Vendor
PartNumbers == {"p1", "p2"}
Statuses == {"Ordered", "Received", "Installed"}
StatusInputs == Statuses \cup {"Returned"}
Sessions == {"s1", "s2"}
CustomerTypes == {"Individual", "Business", "individual"}
Emails == {"a@x", "c@x"}
SSNs == {"111", "222", "333"}
TaxIds == {"T1", "T2"}

\* what a caller of record_sale may supply besides the VIN: buyer, salesperson,
\* date (a day number) and price (mills); customer 9 is never in Customer
SaleInputs ==
    { [customer_id |-> 1, username |-> "owner", sold_on |-> 1, sale_price |-> 13050000],
      [customer_id |-> 2, username |-> "sam", sold_on |-> 2, sale_price |-> 12500000],
      [customer_id |-> 9, username |-> "sam", sold_on |-> 2, sale_price |-> 12500000] }

\* the parts a caller may supply: part number, unit price (mills), quantity, status
PartInputs ==
    { [vendor_part_number |-> "p1", unit_price |-> 1500, quantity |-> 1,
       part_status |-> "Ordered"],
      [vendor_part_number |-> "p2", unit_price |-> 2750, quantity |-> 3,
       part_status |-> "Received"] }

PartLists == UNION { [1..n -> PartInputs] : n \in 1..MaxParts }

\* the part lists of the orders the queries read: one part each, in any of the
\* three statuses
StorePartLists ==
    { << [vendor_part_number |-> "p1", unit_price |-> 250000, quantity |-> 2,
          part_status |-> "Ordered"] >>,
      << [vendor_part_number |-> "p1", unit_price |-> 1500, quantity |-> 1,
          part_status |-> "Received"] >>,
      << [vendor_part_number |-> "p2", unit_price |-> 2750, quantity |-> 3,
          part_status |-> "Installed"] >> }

\* the sales the queries read: one buyer, and one that is no customer
StoreSaleInputs == { i \in SaleInputs : i.customer_id \in {1, 9} }

\* the part lists of the interleaved calls: one part, or the same part twice
RacePartLists == { <<a>> : a \in PartInputs } \cup { <<a, a>> : a \in PartInputs }

\* Python's None as a returned value; a returned id n is <<n>>
None == <<>>

\* st.session_state before anything is selected; the role is the one of the
\* login; reports_in_navigation tells whether the navigation last built has
\* the Reports pages
NoSelection ==
    [role |-> "Public", selected_vin |-> None, all_parts_installed |-> FALSE,
     logged_in |-> FALSE, show_reports |-> FALSE, reports_in_navigation |-> FALSE]
NoCall == [op |-> "none", ret |-> None]

---------------------------------------------------------------------------
(* Helpers *)

RECURSIVE SumSeq(_)
SumSeq(s) == IF s = <<>> THEN 0 ELSE Head(s) + SumSeq(Tail(s))

RECURSIVE Digits(_)
\* str(n): the decimal digits of n, most significant first
Digits(n) == IF n < 10 THEN <<n>> ELSE Append(Digits(n \div 10), n % 10)

RECURSIVE Zfill(_, _)
\* str.zfill(width): pad with zeros on the left up to width, never truncate
Zfill(ds, width) == IF Len(ds) >= width THEN ds ELSE Zfill(<<0>> \o ds, width)

\* round(x, 2) of an amount in mills
Round2(m) == ((m + 5) \div 10) * 10

---------------------------------------------------------------------------
(* Schema constraints: when an INSERT raises                               *)

\* PartsOrder: primary key order_number; references Vehicle and Vendor
PartsOrderInsertRaises(vehicles, vendors, orders, row) ==
    \/ \E o \in orders : o.order_number = row.order_number
    \/ row.vehicle_identification_number \notin vehicles
    \/ row.name \notin vendors

\* Part: primary key (order_number, vendor_parts_number); references PartsOrder
PartInsertRaises(orders, parts_table, row) ==
    \/ \E p \in parts_table :
          /\ p.order_number = row.order_number
          /\ p.vendor_parts_number = row.vendor_parts_number
    \/ ~ \E o \in orders : o.order_number = row.order_number

---------------------------------------------------------------------------
(* add_parts_order *)

\* SELECT COUNT(*) FROM PartsOrder WHERE vehicle_identification_number = :vin
CountOrders(orders, vin) ==
    Cardinality({ o \in orders : o.vehicle_identification_number = vin })

\* faulty variant: the + 1 forgotten
SequentialNumberFromZero(count) == count

SequentialNumber(count) == count + 1

\* f"{vin}-{str(sequential_number).zfill(3)}": the VIN and the padded digits
OrderNumber(vin, sequential_number) ==
    [vin |-> vin, seq |-> Zfill(Digits(sequential_number), 3)]

\* faulty variant: the quantity forgotten
TotalCostPerUnit(parts) ==
    Round2(SumSeq([i \in DOMAIN parts |-> parts[i].unit_price]))

\* round(sum(part["unit_price"] * part["quantity"] for part in parts), 2)
TotalCost(parts) ==
    Round2(SumSeq([i \in DOMAIN parts |-> parts[i].unit_price * parts[i].quantity]))

PartsOrderRow(vin, vendor_name, order_number, total_cost) ==
    [vehicle_identification_number |-> vin, name |-> vendor_name,
     order_number |-> order_number, total_cost |-> total_cost]

PartRow(order_number, part) ==
    [order_number |-> order_number,
     vendor_parts_number |-> part.vendor_part_number,
     quantity |-> part.quantity,
     status |-> part.part_status,
     unit_price |-> part.unit_price]

RECURSIVE InsertParts(_, _, _, _)
\* Step 4: the loop over parts; it stops at the first INSERT that raises
InsertParts(orders, parts_table, order_number, parts) ==
    IF parts = <<>> THEN [raised |-> FALSE, table |-> parts_table]
    ELSE LET row == PartRow(order_number, Head(parts)) IN
         IF PartInsertRaises(orders, parts_table, row)
         THEN [raised |-> TRUE, table |-> parts_table]
         ELSE InsertParts(orders, parts_table \cup {row}, order_number, Tail(parts))

\* faulty variant: no rollback, the rows inserted before the exception stay
AddPartsOrderNoRollback(orders, parts_table, orders_now, parts_now) ==
    [ret |-> FALSE, orders |-> orders_now, parts |-> parts_now]

\* faulty variant: the exception is swallowed and the call reports success
AddPartsOrderSwallow(orders, parts_table, orders_now, parts_now) ==
    [ret |-> TRUE, orders |-> orders, parts |-> parts_table]

\* What the except clause leaves of the tables once create_session has rolled
\* the transaction back: the tables as they were before the call
AddPartsOrderRollback(orders, parts_table, orders_now, parts_now) ==
    [ret |-> FALSE, orders |-> orders, parts |-> parts_table]

\* The transaction of one call run alone: the tables it leaves and its result
AddPartsOrderResult(vehicles, vendors, orders, parts_table, vin, vendor_name, parts) ==
    LET count == CountOrders(orders, vin)
        order_number == OrderNumber(vin, SequentialNumber(count))
        row == PartsOrderRow(vin, vendor_name, order_number, TotalCost(parts))
        orders1 == orders \cup {row}
        ins == InsertParts(orders1, parts_table, order_number, parts)
    IN  IF PartsOrderInsertRaises(vehicles, vendors, orders, row)
        THEN AddPartsOrderRollback(orders, parts_table, orders, parts_table)
        ELSE IF ins.raised
        THEN AddPartsOrderRollback(orders, parts_table, orders1, ins.table)
        ELSE [ret |-> TRUE, orders |-> orders1, parts |-> ins.table]

AddPartsOrder(vin, vendor_name, parts) ==
    /\ Cardinality(PartsOrder) < MaxOrders
    /\ LET r == AddPartsOrderResult(Vehicle, Vendor, PartsOrder, Part,
                                    vin, vendor_name, parts)
       IN  /\ PartsOrder' = r.orders
           /\ Part' = r.parts
           /\ last' = [op |-> "add_parts_order", ret |-> r.ret]
    /\ UNCHANGED <<Vehicle, PurchaseTransaction, VehicleColor, ui, Vendor, custVars, SaleTransaction, sess>>

---------------------------------------------------------------------------
(* update_part_status and update_status *)

\* faulty variant: Installed is not terminal
ValidStatusTransitionsLoose(current_status) ==
    CASE current_status = "Ordered" -> {"Received", "Installed"}
      [] current_status = "Received" -> {"Installed"}
      [] current_status = "Installed" -> {"Received"}
      [] OTHER -> {}

\* valid_status_transitions.get(current_status, [])
ValidStatusTransitions(current_status) ==
    CASE current_status = "Ordered" -> {"Received", "Installed"}
      [] current_status = "Received" -> {"Installed"}
      [] current_status = "Installed" -> {}
      [] OTHER -> {}

\* the rows WHERE order_number = :order_number AND vendor_parts_number = :vendor_part_number
MatchingParts(parts_table, order_number, vendor_part_number) ==
    { p \in parts_table :
        /\ p.order_number = order_number
        /\ p.vendor_parts_number = vendor_part_number }

\* UPDATE Part SET status = :new_status WHERE ...
SetStatus(parts_table, order_number, vendor_part_number, new_status) ==
    { IF p \in MatchingParts(parts_table, order_number, vendor_part_number)
      THEN [p EXCEPT !.status = new_status]
      ELSE p : p \in parts_table }

\* update_part_status: the Part table it leaves and its result
UpdatePartStatusResult(parts_table, order_number, vendor_part_number, new_status) ==
    LET found == MatchingParts(parts_table, order_number, vendor_part_number) IN
    IF found = {}
    THEN [ret |-> FALSE, parts |-> parts_table]
    ELSE LET current_status == (CHOOSE p \in found : TRUE).status IN
         IF new_status \in ValidStatusTransitions(current_status)
         THEN [ret |-> TRUE,
               parts |-> SetStatus(parts_table, order_number, vendor_part_number, new_status)]
         ELSE [ret |-> FALSE, parts |-> parts_table]

UpdatePartStatus(order_number, vendor_part_number, new_status) ==
    /\ LET r == UpdatePartStatusResult(Part, order_number, vendor_part_number, new_status)
       IN  /\ Part' = r.parts
           /\ last' = [op |-> "update_part_status", ret |-> r.ret]
    /\ UNCHANGED <<Vehicle, PurchaseTransaction, VehicleColor, ui, Vendor, PartsOrder, custVars, SaleTransaction, sess>>

\* update_status: the Part table it leaves and its result (result.rowcount > 0:
\* the driver counts the rows the WHERE clause matched)
UpdateStatusResult(parts_table, new_status, vendor_part_number, order_number) ==
    [ret |-> MatchingParts(parts_table, order_number, vendor_part_number) # {},
     parts |-> SetStatus(parts_table, order_number, vendor_part_number, new_status)]

UpdateStatus(new_status, vendor_part_number, order_number) ==
    /\ LET r == UpdateStatusResult(Part, new_status, vendor_part_number, order_number)
       IN  /\ Part' = r.parts
           /\ last' = [op |-> "update_status", ret |-> r.ret]
    /\ UNCHANGED <<Vehicle, PurchaseTransaction, VehicleColor, ui, Vendor, PartsOrder, custVars, SaleTransaction, sess>>

\* order numbers a caller may name: those of the stored orders and an unknown one
OrderNumberInputs == { o.order_number : o \in PartsOrder } \cup { OrderNumber("V9", 1) }

---------------------------------------------------------------------------
(* add_customer *)

\* IndividualCustomer: primary key social_security_number; customer_id unique
\* (migration 005) and a reference to Customer
IndividualInsertRaises(customers, individuals, row) ==
    \/ \E i \in individuals : i.social_security_number = row.social_security_number
    \/ \E i \in individuals : i.customer_id = row.customer_id
    \/ ~ \E c \in customers : c.id = row.customer_id

\* BusinessCustomer: primary key tax_identification_number; customer_id unique
\* (migration 005) and a reference to Customer
BusinessInsertRaises(customers, businesses, row) ==
    \/ \E b \in businesses : b.tax_identification_number = row.tax_identification_number
    \/ \E b \in businesses : b.customer_id = row.customer_id
    \/ ~ \E c \in customers : c.id = row.customer_id

\* faulty variant: the Customer row inserted before the exception stays
AddCustomerNoRollback(customers, individuals, businesses, customers_now) ==
    [ret |-> None, customers |-> customers_now,
     individuals |-> individuals, businesses |-> businesses]

\* The except clause: session.rollback() and return None
AddCustomerRollback(customers, individuals, businesses, customers_now) ==
    [ret |-> None, customers |-> customers,
     individuals |-> individuals, businesses |-> businesses]

\* The transaction of one call: the tables it leaves and its result; id is the
\* value SELECT LAST_INSERT_ID() returns for the Customer row just inserted
AddCustomerResult(customers, individuals, businesses, id, customer_type, email, social_security_number, tax_id_number) ==
    LET customers1 == customers \cup {[id |-> id, email |-> email]}
        individual == [customer_id |-> id,
                       social_security_number |-> social_security_number]
        business == [customer_id |-> id,
                     tax_identification_number |-> tax_id_number]
    IN  IF customer_type = "Individual"
        THEN IF IndividualInsertRaises(customers1, individuals, individual)
             THEN AddCustomerRollback(customers, individuals, businesses, customers1)
             ELSE [ret |-> <<id>>, customers |-> customers1,
                   individuals |-> individuals \cup {individual},
                   businesses |-> businesses]
        ELSE IF customer_type = "Business"
        THEN IF BusinessInsertRaises(customers1, businesses, business)
             THEN AddCustomerRollback(customers, individuals, businesses, customers1)
             ELSE [ret |-> <<id>>, customers |-> customers1,
                   individuals |-> individuals,
                   businesses |-> businesses \cup {business}]
        ELSE [ret |-> <<id>>, customers |-> customers1,
              individuals |-> individuals, businesses |-> businesses]

AddCustomer(customer_type, email, social_security_number, tax_id_number) ==
    /\ last_insert_id < MaxCustomers
    /\ LET r == AddCustomerResult(Customer, IndividualCustomer, BusinessCustomer,
                                  last_insert_id + 1, customer_type, email,
                                  social_security_number, tax_id_number)
       IN  /\ Customer' = r.customers
           /\ IndividualCustomer' = r.individuals
           /\ BusinessCustomer' = r.businesses
           /\ last' = [op |-> "add_customer", ret |-> r.ret]
    \* the counter is not part of the transaction: a rolled back id is not reused
    /\ last_insert_id' = last_insert_id + 1
    /\ UNCHANGED <<Vehicle, PurchaseTransaction, VehicleColor, ui, Vendor, PartsOrder, Part, SaleTransaction, sess>>

---------------------------------------------------------------------------
(* Connections.  A session holds the rows it has inserted and not yet       *)
(* committed; session.commit() adds them to the tables, session.rollback()  *)
(* drops them.  An INSERT whose key another session holds uncommitted waits *)
(* until that session commits or rolls back.                                *)

IdleSession == [pc |-> "idle"]

Busy(s) == sess[s].pc # "idle"

---------------------------------------------------------------------------
(* record_sale *)

\* SaleTransaction: primary key vehicle_identification_number; references
\* Vehicle and Customer
SaleInsertRaises(vehicles, customers, sales, row) ==
    \/ \E t \in sales : t.vehicle_identification_number = row.vehicle_identification_number
    \/ row.vehicle_identification_number \notin vehicles
    \/ ~ \E c \in customers : c.id = row.customer_id

SaleRow(vin, customer_identifier, username, sale_date, sale_price) ==
    [vehicle_identification_number |-> vin, customer_id |-> customer_identifier,
     username |-> username, sold_on |-> sale_date, sale_price |-> sale_price]

\* faulty variant: the except clause reports success
RecordSaleOnErrorTrue == TRUE

\* The except clause: session.rollback() and return False
RecordSaleOnError == FALSE

\* the INSERT waits while another session holds an uncommitted row for the VIN
SaleInsertWaits(s, row) ==
    \E t \in Sessions \ {s} :
        /\ sess[t].pc = "sale_inserted"
        /\ sess[t].row.vehicle_identification_number = row.vehicle_identification_number

\* session.execute(sale_query, ...): the INSERT, and the except clause if it raises
RecordSaleInsert(s, vin, customer_identifier, username, sale_date, sale_price) ==
    LET row == SaleRow(vin, customer_identifier, username, sale_date, sale_price) IN
    /\ sess[s].pc = "idle"
    /\ ~ SaleInsertWaits(s, row)
    /\ IF SaleInsertRaises(Vehicle, Customer, SaleTransaction, row)
       THEN /\ last' = [op |-> "record_sale", ret |-> RecordSaleOnError, session |-> s]
            /\ sess' = sess
       ELSE /\ sess' = [sess EXCEPT ![s] = [pc |-> "sale_inserted", row |-> row]]
            /\ last' = last
    /\ UNCHANGED <<Vehicle, PurchaseTransaction, VehicleColor, ui, Vendor, PartsOrder, Part, custVars, SaleTransaction>>

\* session.commit() and return True
RecordSaleCommit(s) ==
    /\ sess[s].pc = "sale_inserted"
    /\ SaleTransaction' = SaleTransaction \cup {sess[s].row}
    /\ sess' = [sess EXCEPT ![s] = IdleSession]
    /\ last' = [op |-> "record_sale", ret |-> TRUE, session |-> s]
    /\ UNCHANGED <<Vehicle, PurchaseTransaction, VehicleColor, ui, Vendor, PartsOrder, Part, custVars>>

\* record_sale as one call on a connection of its own
RecordSale(vin, customer_identifier, username, sale_date, sale_price) ==
    LET row == SaleRow(vin, customer_identifier, username, sale_date, sale_price) IN
    /\ IF SaleInsertRaises(Vehicle, Customer, SaleTransaction, row)
       THEN /\ SaleTransaction' = SaleTransaction
            /\ last' = [op |-> "record_sale", ret |-> RecordSaleOnError, vin |-> vin]
       ELSE /\ SaleTransaction' = SaleTransaction \cup {row}
            /\ last' = [op |-> "record_sale", ret |-> TRUE, vin |-> vin]
    /\ UNCHANGED <<Vehicle, PurchaseTransaction, VehicleColor, ui, Vendor, PartsOrder,
                   Part, custVars, sess>>

---------------------------------------------------------------------------
(* add_parts_order, statement by statement on one connection *)

\* the INSERT waits while another session holds an uncommitted PartsOrder row
\* with the same order_number
OrderInsertWaits(s, row) ==
    \E t \in Sessions \ {s} :
        /\ sess[t].pc \in {"order_inserted", "parts_inserted"}
        /\ sess[t].row.order_number = row.order_number

\* PartsOrder rows inserted by some session and not yet committed
UncommittedOrders ==
    { t \in Sessions : sess[t].pc \in {"order_inserted", "parts_inserted"} }

\* Step 1: the transaction begins and reads the count of committed orders
AddPartsOrderCount(s, vin, vendor_name, parts) ==
    /\ sess[s].pc = "idle"
    /\ Cardinality(PartsOrder) + Cardinality(UncommittedOrders) < MaxOrders
    /\ sess' = [sess EXCEPT ![s] =
                  [pc |-> "counted", vin |-> vin, vendor_name |-> vendor_name,
                   parts |-> parts, count |-> CountOrders(PartsOrder, vin)]]
    /\ UNCHANGED <<Vehicle, PurchaseTransaction, VehicleColor, ui, Vendor, PartsOrder, Part, custVars, SaleTransaction, last>>

\* Steps 2 and 3: the order number, the total cost and the PartsOrder INSERT
AddPartsOrderInsertOrder(s) ==
    /\ sess[s].pc = "counted"
    /\ LET c == sess[s]
           order_number == OrderNumber(c.vin, SequentialNumber(c.count))
           row == PartsOrderRow(c.vin, c.vendor_name, order_number, TotalCost(c.parts))
       IN  /\ ~ OrderInsertWaits(s, row)
           /\ IF PartsOrderInsertRaises(Vehicle, Vendor, PartsOrder, row)
              THEN sess' = [sess EXCEPT ![s] =
                      [pc |-> "returned", vin |-> c.vin, count |-> c.count,
                       order_number |-> order_number,
                       ret |-> AddPartsOrderRollback(PartsOrder, Part,
                                                     PartsOrder, Part).ret]]
              ELSE sess' = [sess EXCEPT ![s] =
                      [pc |-> "order_inserted", vin |-> c.vin, count |-> c.count,
                       parts |-> c.parts, row |-> row]]
    /\ UNCHANGED <<Vehicle, PurchaseTransaction, VehicleColor, ui, Vendor, PartsOrder, Part, custVars, SaleTransaction, last>>

\* Step 4: the Part INSERTs
AddPartsOrderInsertParts(s) ==
    /\ sess[s].pc = "order_inserted"
    /\ LET c == sess[s]
           orders1 == PartsOrder \cup {c.row}
           ins == InsertParts(orders1, Part, c.row.order_number, c.parts)
       IN  IF ins.raised
           THEN sess' = [sess EXCEPT ![s] =
                   [pc |-> "returned", vin |-> c.vin, count |-> c.count,
                    order_number |-> c.row.order_number,
                    ret |-> AddPartsOrderRollback(PartsOrder, Part,
                                                  orders1, ins.table).ret]]
           ELSE sess' = [sess EXCEPT ![s] =
                   [pc |-> "parts_inserted", vin |-> c.vin, count |-> c.count,
                    row |-> c.row, part_rows |-> ins.table \ Part]]
    /\ UNCHANGED <<Vehicle, PurchaseTransaction, VehicleColor, ui, Vendor, PartsOrder, Part, custVars, SaleTransaction, last>>

\* session.commit() and return True
AddPartsOrderCommit(s) ==
    /\ sess[s].pc = "parts_inserted"
    /\ PartsOrder' = PartsOrder \cup {sess[s].row}
    /\ Part' = Part \cup sess[s].part_rows
    /\ sess' = [sess EXCEPT ![s] =
                  [pc |-> "returned", vin |-> sess[s].vin, count |-> sess[s].count,
                   order_number |-> sess[s].row.order_number, ret |-> TRUE]]
    /\ UNCHANGED <<Vehicle, PurchaseTransaction, VehicleColor, ui, Vendor, custVars, SaleTransaction, last>>

\* the caller has the result; the connection is free for the next call
AddPartsOrderReturn(s) ==
    /\ sess[s].pc = "returned"
    /\ last' = [op |-> "add_parts_order", ret |-> sess[s].ret, session |-> s]
    /\ sess' = [sess EXCEPT ![s] = IdleSession]
    /\ UNCHANGED <<Vehicle, PurchaseTransaction, VehicleColor, ui, Vendor, PartsOrder, Part, custVars, SaleTransaction>>

---------------------------------------------------------------------------
(* add_vehicle_and_related_data: three calls, each in a session of its own *)

\* the reference table Color
Color == {"Red", "Blue"}
\* the VINs, colour lists, sellers and prices a caller may pass
NewVINs == {"V1", "V3", "V4"}
ColorLists == { <<>>, <<"Red">>, <<"Red", "Blue">>, <<"Red", "Red">>, <<"Teal">> }
CustomerIds == { None, <<1>>, <<9>> }
PurchasePrices == { 10000000, 8000000 }

\* Vehicle: primary key vehicle_identification_number
VehicleInsertRaises(vehicles, vin) == vin \in vehicles

\* VehicleColor: one row per (VIN, colour), the colour a row of Color, the VIN
\* a row of Vehicle
VehicleColorInsertRaises(vehicles, colors_table, row) ==
    \/ row \in colors_table
    \/ row.color_name \notin Color
    \/ row.vehicle_identification_number \notin vehicles

\* PurchaseTransaction: at most one per vehicle, the vehicle a row of Vehicle,
\* the seller a row of Customer
PurchaseInsertRaises(vehicles, customers, purchases, row) ==
    \/ \E t \in purchases :
          t.vehicle_identification_number = row.vehicle_identification_number
    \/ row.vehicle_identification_number \notin vehicles
    \/ \A c \in customers : c.id # row.customer_id

\* add_vehicle: the Vehicle table it leaves and its result.  With customer_id
\* None the function returns False from inside the with block: no exception
\* reaches create_session, which commits the insert.
AddVehicleResult(vehicles, customer_id, vin) ==
    IF VehicleInsertRaises(vehicles, vin)
    THEN [ret |-> FALSE, vehicles |-> vehicles]
    ELSE IF customer_id = None
    THEN [ret |-> FALSE, vehicles |-> vehicles \cup {vin}]
    ELSE [ret |-> TRUE, vehicles |-> vehicles \cup {vin}]

RECURSIVE InsertColors(_, _, _, _)
\* the for loop of add_vehicle_colors: the table after the inserts, raised set
\* when one of them raises
InsertColors(vehicles, colors_table, vin, colors) ==
    IF colors = <<>> THEN [raised |-> FALSE, colors |-> colors_table]
    ELSE LET row == [vehicle_identification_number |-> vin, color_name |-> Head(colors)]
         IN  IF VehicleColorInsertRaises(vehicles, colors_table, row)
             THEN [raised |-> TRUE, colors |-> colors_table]
             ELSE InsertColors(vehicles, colors_table \cup {row}, vin, Tail(colors))

\* add_vehicle_colors: the VehicleColor table it leaves and its result
AddVehicleColorsResult(vehicles, colors_table, vin, colors) ==
    LET r == InsertColors(vehicles, colors_table, vin, colors)
    IN  IF r.raised THEN [ret |-> FALSE, colors |-> colors_table]
        ELSE [ret |-> TRUE, colors |-> r.colors]

PurchaseRow(vin, customer_id, purchase_price, purchase_date) ==
    [vehicle_identification_number |-> vin, customer_id |-> customer_id[1],
     purchase_price |-> purchase_price, purchased_on |-> purchase_date]

\* add_purchase_transaction: the PurchaseTransaction table it leaves and its result
AddPurchaseTransactionResult(vehicles, customers, purchases, vin, customer_id, purchase_price, purchase_date) ==
    LET row == PurchaseRow(vin, customer_id, purchase_price, purchase_date)
    IN  IF PurchaseInsertRaises(vehicles, customers, purchases, row)
        THEN [ret |-> FALSE, purchases |-> purchases]
        ELSE [ret |-> TRUE, purchases |-> purchases \cup {row}]

\* faulty variant: one of the two follow-up inserts is enough
CompositeSuccessEither(color_success, purchase_success) ==
    color_success \/ purchase_success

\* if color_success and purchase_success: return True, else False
CompositeSuccess(color_success, purchase_success) ==
    color_success /\ purchase_success

\* add_vehicle_and_related_data: the tables it leaves and its result
AddVehicleAndRelatedDataResult(vehicles, colors_table, purchases, customers, vin, color, customer_id, purchase_price, purchase_date) ==
    LET v == AddVehicleResult(vehicles, customer_id, vin)
    IN  IF v.ret
        THEN LET c == AddVehicleColorsResult(v.vehicles, colors_table, vin, color)
                 p == AddPurchaseTransactionResult(v.vehicles, customers, purchases,
                          vin, customer_id, purchase_price, purchase_date)
             IN  [ret |-> CompositeSuccess(c.ret, p.ret), vehicles |-> v.vehicles,
                  colors |-> c.colors, purchases |-> p.purchases]
        ELSE [ret |-> FALSE, vehicles |-> v.vehicles,
              colors |-> colors_table, purchases |-> purchases]

AddVehicleAndRelatedData(vin, color, customer_id, purchase_price, purchase_date) ==
    /\ LET r == AddVehicleAndRelatedDataResult(Vehicle, VehicleColor,
                    PurchaseTransaction, Customer, vin, color, customer_id,
                    purchase_price, purchase_date)
       IN  /\ Vehicle' = r.vehicles
           /\ VehicleColor' = r.colors
           /\ PurchaseTransaction' = r.purchases
           /\ last' = [op |-> "add_vehicle_and_related_data", ret |-> r.ret, vin |-> vin]
    /\ UNCHANGED <<Vendor, PartsOrder, Part, custVars, SaleTransaction, ui, sess>>

---------------------------------------------------------------------------
(* The listing query search_vehicles                                       *)

\* the tables the queries read
DB ==
    [Vehicle |-> Vehicle, VehicleColor |-> VehicleColor,
     SaleTransaction |-> SaleTransaction, PurchaseTransaction |-> PurchaseTransaction,
     PartsOrder |-> PartsOrder, Part |-> Part]

\* ORDER BY v.vehicle_identification_number ASC: the collation of the VINs
VinOrder == <<"V1", "V2", "V3", "V4", "V9">>

\* The columns of a Vehicle row other than the VIN, as add_vehicle inserts
\* them; text is a sequence of characters
VehicleAttributes(vin) ==
    IF vin = "V1"
    THEN [vehicle_type |-> "SUV", manufacturer_name |-> "BMW",
          model_name |-> <<"X", "5">>, year |-> 2019, fuel_type |-> "Gas",
          horsepower |-> 300, description |-> <<"f", "a", "s", "t">>]
    ELSE [vehicle_type |-> "Sedan", manufacturer_name |-> "Kia",
          model_name |-> <<"R", "i", "o">>, year |-> 2020, fuel_type |-> "Diesel",
          horsepower |-> 120, description |-> <<>>]

\* the characters of a manufacturer name
NameChars(name) ==
    IF name = "BMW" THEN <<"B", "M", "W">> ELSE <<"K", "i", "a">>

DigitChars == <<"0", "1", "2", "3", "4", "5", "6", "7", "8", "9">>

\* CAST(v.year AS CHAR)
YearChars(year) == [i \in 1..Len(Digits(year)) |-> DigitChars[Digits(year)[i] + 1]]

\* text LIKE '%keyword%'
Like(text, keyword) ==
    \E i \in 0..(Len(text) - Len(keyword)) : SubSeq(text, i + 1, i + Len(keyword)) = keyword

RECURSIVE SumTotalCost(_)
\* SUM(total_cost) over a set of PartsOrder rows
SumTotalCost(rows) ==
    IF rows = {} THEN 0
    ELSE LET r == CHOOSE x \in rows : TRUE IN r.total_cost + SumTotalCost(rows \ {r})

\* po_aggregated.TotalPartsCost with IFNULL(..., 0)
TotalPartsCostOf(db, vin) ==
    SumTotalCost({ o \in db.PartsOrder : o.vehicle_identification_number = vin })

\* the row of a LEFT JOIN on the VIN: <<row>> when there is one, <<>> (NULL) when not
JoinOne(rows, vin) ==
    IF \E t \in rows : t.vehicle_identification_number = vin
    THEN << CHOOSE t \in rows : t.vehicle_identification_number = vin >>
    ELSE <<>>

\* faulty variant: the factor of the parts cost forgotten
AskingPriceNoMarkup(purchase_price, total_parts_cost) ==
    ((125 * purchase_price + 100 * total_parts_cost + 500) \div 1000) * 10

\* ROUND((1.25 * pt.purchase_price) + (1.1 * IFNULL(TotalPartsCost, 0)), 2), in
\* mills: the sum is exact in 1/100 of a mill and rounds half up to the cent
AskingPrice(purchase_price, total_parts_cost) ==
    ((125 * purchase_price + 110 * total_parts_cost + 500) \div 1000) * 10

\* CASE WHEN st.sale_price IS NOT NULL THEN st.sale_price ELSE ROUND(...) END:
\* <<price>>, or <<>> (NULL) for a vehicle with neither sale nor purchase
SalePriceOf(db, vin) ==
    LET st == JoinOne(db.SaleTransaction, vin)
        pt == JoinOne(db.PurchaseTransaction, vin)
    IN  IF st # <<>> THEN << st[1].sale_price >>
        ELSE IF pt # <<>>
        THEN << AskingPrice(pt[1].purchase_price, TotalPartsCostOf(db, vin)) >>
        ELSE <<>>

\* st.sale_price IS NULL: the vehicle has no SaleTransaction (a sale always
\* records its price)
Unsold(db, vin) == JoinOne(db.SaleTransaction, vin) = <<>>

\* EXISTS (SELECT 1 FROM Part p INNER JOIN PartsOrder po_sub ... AND p.status != 'Installed')
HasPendingPart(db, vin) ==
    \E p \in db.Part : \E o \in db.PartsOrder :
        /\ p.order_number = o.order_number
        /\ o.vehicle_identification_number = vin
        /\ p.status # "Installed"

\* the colours of the joined VehicleColor rows that pass the colour filter
ColorsOf(db, vin, color) ==
    { c.color_name : c \in { r \in db.VehicleColor :
          /\ r.vehicle_identification_number = vin
          /\ (color = "" \/ color = "Any" \/ r.color_name = color) } }

\* the SELECT list for one vehicle
ListingRow(db, vin, color) ==
    LET a == VehicleAttributes(vin)
        pt == JoinOne(db.PurchaseTransaction, vin)
    IN  [VIN |-> vin, VehicleType |-> a.vehicle_type, Manufacturer |-> a.manufacturer_name,
         Model |-> a.model_name, Year |-> a.year, FuelType |-> a.fuel_type,
         Colors |-> ColorsOf(db, vin, color), Horsepower |-> a.horsepower,
         SalePrice |-> SalePriceOf(db, vin),
         PurchasePrice |-> IF pt = <<>> THEN <<>> ELSE << pt[1].purchase_price >>,
         PurchaseDate |-> IF pt = <<>> THEN <<>> ELSE << pt[1].purchased_on >>,
         TotalPartsCost |-> Round2(TotalPartsCostOf(db, vin)),
         Description |-> a.description]

AllColumns ==
    <<"VIN", "VehicleType", "Manufacturer", "Model", "Year", "FuelType", "Colors",
      "Horsepower", "SalePrice", "PurchasePrice", "PurchaseDate", "TotalPartsCost",
      "Description">>

\* faulty variant: the clerk's projection handed to everyone but Manager and Owner
ColumnsForRoleClerkDefault(role) ==
    IF role \in {"Manager", "Owner"} THEN AllColumns
    ELSE <<"VIN", "VehicleType", "Manufacturer", "Model", "Year", "FuelType",
           "Colors", "Horsepower", "PurchasePrice", "TotalPartsCost">>

\* Adjust columns based on role
ColumnsForRole(role) ==
    IF role \in {"Public", "Salesperson"}
    THEN <<"VIN", "VehicleType", "Manufacturer", "Model", "Year", "FuelType",
           "Colors", "Horsepower", "SalePrice">>
    ELSE IF role = "Inventory clerk"
    THEN <<"VIN", "VehicleType", "Manufacturer", "Model", "Year", "FuelType",
           "Colors", "Horsepower", "PurchasePrice", "TotalPartsCost">>
    ELSE AllColumns

\* df[columns]
Project(row, columns) ==
    [c \in { columns[i] : i \in DOMAIN columns } |-> row[c]]

\* a string filter that is None, empty or the sentinel "Any" adds no predicate
Given(value) == value # "" /\ value # "Any"

\* faulty variant: Public and Salesperson see every unsold vehicle
RoleFilterUnsoldOnly(db, vin, role, vehicle_status) ==
    IF role \in {"Public", "Salesperson", "Inventory clerk"} THEN Unsold(db, vin)
    ELSE IF vehicle_status = "Sold" THEN ~Unsold(db, vin)
    ELSE IF vehicle_status = "Unsold" THEN Unsold(db, vin)
    ELSE TRUE

\* faulty variant: the Sold filter also hides vehicles with pending parts
RoleFilterSoldNoPending(db, vin, role, vehicle_status) ==
    IF role \in {"Public", "Salesperson"}
    THEN Unsold(db, vin) /\ ~HasPendingPart(db, vin)
    ELSE IF role = "Inventory clerk" THEN Unsold(db, vin)
    ELSE IF vehicle_status = "Sold" THEN ~Unsold(db, vin) /\ ~HasPendingPart(db, vin)
    ELSE IF vehicle_status = "Unsold" THEN Unsold(db, vin)
    ELSE TRUE

\* Role-Based Filtering: the WHERE clause the role selects
RoleFilter(db, vin, role, vehicle_status) ==
    IF role \in {"Public", "Salesperson"}
    THEN Unsold(db, vin) /\ ~HasPendingPart(db, vin)
    ELSE IF role = "Inventory clerk" THEN Unsold(db, vin)
    ELSE IF vehicle_status = "Sold" THEN ~Unsold(db, vin)
    ELSE IF vehicle_status = "Unsold" THEN Unsold(db, vin)
    ELSE TRUE

\* the predicates the filters add with AND
FiltersMatch(db, vin, f) ==
    LET a == VehicleAttributes(vin) IN
    /\ Given(f.vehicle_type) => a.vehicle_type = f.vehicle_type
    /\ Given(f.manufacturer) => a.manufacturer_name = f.manufacturer
    /\ (f.year # <<>> /\ f.year # <<"A", "n", "y">>) => YearChars(a.year) = f.year
    /\ Given(f.fuel_type) => a.fuel_type = f.fuel_type
    /\ Given(f.color) => ColorsOf(db, vin, f.color) # {}
    /\ f.keyword # <<>> =>
          \/ Like(NameChars(a.manufacturer_name), f.keyword)
          \/ Like(a.model_name, f.keyword)
          \/ Like(YearChars(a.year), f.keyword)
          \/ Like(a.description, f.keyword)
    /\ f.vin # "" => vin = f.vin

\* some filter appends " AND ..." to the query
AnyFilter(f) ==
    \/ Given(f.vehicle_type) \/ Given(f.manufacturer) \/ Given(f.fuel_type)
    \/ Given(f.color) \/ f.vin # "" \/ f.keyword # <<>>
    \/ (f.year # <<>> /\ f.year # <<"A", "n", "y">>)

KnownRoles == {"Public", "Salesperson", "Inventory clerk", "Manager", "Owner"}

\* search_vehicles: the DataFrame it returns, its rows in VIN order.  For a
\* role outside the five no WHERE is written: a filter then makes the statement
\* malformed and the call raises.
SearchVehicles(db, f) ==
    IF f.role \notin KnownRoles /\ AnyFilter(f)
    THEN [raised |-> TRUE, columns |-> <<>>, rows |-> <<>>]
    ELSE LET Match(vin) ==
                 /\ vin \in db.Vehicle
                 /\ f.role \in KnownRoles => RoleFilter(db, vin, f.role, f.vehicle_status)
                 /\ FiltersMatch(db, vin, f)
             vins == SelectSeq(VinOrder, Match)
             columns == ColumnsForRole(f.role)
         IN  [raised |-> FALSE, columns |-> columns,
              rows |-> [i \in 1..Len(vins) |->
                          Project(ListingRow(db, vins[i], f.color), columns)]]

\* the filters a caller may pass: none, one, or several together
NoFilter ==
    [vehicle_type |-> "", manufacturer |-> "", year |-> <<>>, fuel_type |-> "",
     color |-> "", keyword |-> <<>>, vin |-> "", vehicle_status |-> "",
     role |-> "Public"]

FilterInputs ==
    { NoFilter,
      [NoFilter EXCEPT !.vehicle_type = "SUV", !.fuel_type = "Any",
                       !.year = <<"2", "0", "1", "9">>],
      [NoFilter EXCEPT !.manufacturer = "Kia", !.color = "Blue", !.keyword = <<"i">>],
      [NoFilter EXCEPT !.vin = "V1", !.year = <<"A", "n", "y">>,
                       !.keyword = <<"1", "9">>] }

\* "Inventory Clerk" is the spelling of utils/constants.py, none of the five
\* roles search_vehicles tests for
RoleInputs == KnownRoles \cup {"Inventory Clerk"}
VehicleStatusInputs == {"All Vehicles", "Sold", "Unsold"}

\* a call of search_vehicles: the store is read, not written
Search(f, role, vehicle_status) ==
    /\ last' = [op |-> "search_vehicles", role |-> role,
                vehicle_status |-> vehicle_status, filters |-> f,
                ret |-> SearchVehicles(DB, [f EXCEPT !.role = role,
                                                    !.vehicle_status = vehicle_status])]
    /\ UNCHANGED <<Vehicle, PurchaseTransaction, VehicleColor, ui, Vendor, PartsOrder,
                   Part, custVars, SaleTransaction, sess>>

\* get_vehicle_details_for_sale: << the dictionary >> for a vehicle that is in
\* the store and not IN (SELECT ... FROM SaleTransaction), None otherwise
GetVehicleDetailsForSaleResult(db, vin) ==
    IF vin \in db.Vehicle /\ \A t \in db.SaleTransaction : t.vehicle_identification_number # vin
    THEN LET row == ListingRow(db, vin, "")
         IN  << [VIN |-> row.VIN, VehicleType |-> row.VehicleType,
                 Manufacturer |-> row.Manufacturer, Model |-> row.Model,
                 Year |-> row.Year, FuelType |-> row.FuelType,
                 Horsepower |-> row.Horsepower, Colors |-> row.Colors,
                 Condition |-> "Good", Description |-> row.Description,
                 PurchasePrice |-> row.PurchasePrice, PurchaseDate |-> row.PurchaseDate,
                 SalePrice |-> row.SalePrice] >>
    ELSE None

\* a call of get_vehicle_details_for_sale
GetVehicleDetailsForSale(vin) ==
    /\ last' = [op |-> "get_vehicle_details_for_sale", vin |-> vin,
                ret |-> GetVehicleDetailsForSaleResult(DB, vin)]
    /\ UNCHANGED <<Vehicle, PurchaseTransaction, VehicleColor, ui, Vendor, PartsOrder,
                   Part, custVars, SaleTransaction, sess>>

---------------------------------------------------------------------------
(* The detail queries and the counts of the search page                    *)

\* the SELECT list of the detail queries: the listing's and st.sold_on AS SaleDate
DetailRow(db, vin) ==
    LET row == ListingRow(db, vin, "")
        st == JoinOne(db.SaleTransaction, vin)
    IN  [c \in DOMAIN row \cup {"SaleDate"} |->
            IF c = "SaleDate"
            THEN (IF st = <<>> THEN <<>> ELSE << st[1].sold_on >>)
            ELSE row[c]]

\* Adjust columns based on role: Public and Salesperson, and everyone else
DetailColumns(role) ==
    IF role \in {"Public", "Salesperson"}
    THEN <<"VIN", "VehicleType", "Manufacturer", "Model", "Year", "FuelType",
           "Colors", "Horsepower", "Description", "SalePrice">>
    ELSE <<"VIN", "VehicleType", "Manufacturer", "Model", "Year", "FuelType",
           "Colors", "Horsepower", "Description", "TotalPartsCost", "PurchasePrice",
           "PurchaseDate", "SalePrice", "SaleDate">>

\* pd.melt(df[columns], var_name="Attribute", value_name="Value"): one row per
\* column and frame row, column by column
Melt(rows, columns) ==
    [k \in 1..(Len(columns) * Len(rows)) |->
        LET c == columns[((k - 1) \div Len(rows)) + 1]
            r == rows[((k - 1) % Len(rows)) + 1]
        IN  [Attribute |-> c, Value |-> r[c]]]

\* the frame of a detail query: the vehicles the WHERE clause keeps, in VIN order
DetailFrame(db, vin, kept) ==
    LET Match(v) == v \in db.Vehicle /\ v \in kept /\ (vin # "" => v = vin)
        vins == SelectSeq(VinOrder, Match)
    IN  [i \in 1..Len(vins) |-> DetailRow(db, vins[i])]

\* get_vehicle_details_for_public
GetVehicleDetailsForPublicResult(db, vin, role) ==
    LET Keep(v) ==
            IF role \in {"Public", "Salesperson"}
            THEN Unsold(db, v) /\ ~HasPendingPart(db, v)
            ELSE IF role \in {"Manager", "Owner"} THEN TRUE
            ELSE Unsold(db, v)
    IN  Melt(DetailFrame(db, vin, { v \in db.Vehicle : Keep(v) }), DetailColumns(role))

\* get_vehicle_details
GetVehicleDetailsResult(db, vin, role) ==
    LET Keep(v) ==
            IF role \in {"Public", "Salesperson"}
            THEN Unsold(db, v) /\ ~HasPendingPart(db, v)
            ELSE Unsold(db, v)
    IN  Melt(DetailFrame(db, vin, { v \in db.Vehicle : Keep(v) }), DetailColumns(role))

GetVehicleDetailsForPublic(vin, role) ==
    /\ last' = [op |-> "get_vehicle_details_for_public", vin |-> vin, role |-> role,
                ret |-> GetVehicleDetailsForPublicResult(DB, vin, role)]
    /\ UNCHANGED <<Vehicle, PurchaseTransaction, VehicleColor, ui, Vendor, PartsOrder,
                   Part, custVars, SaleTransaction, sess>>

GetVehicleDetails(vin, role) ==
    /\ last' = [op |-> "get_vehicle_details", vin |-> vin, role |-> role,
                ret |-> GetVehicleDetailsResult(DB, vin, role)]
    /\ UNCHANGED <<Vehicle, PurchaseTransaction, VehicleColor, ui, Vendor, PartsOrder,
                   Part, custVars, SaleTransaction, sess>>

\* v.vehicle_identification_number NOT IN (SELECT ... FROM SaleTransaction)
NotInSaleTransaction(db, vin) ==
    \A t \in db.SaleTransaction : t.vehicle_identification_number # vin

\* faulty variant: the exclusion of sold vehicles forgotten
CountCarsWithPendingPartsAnySale(db) ==
    Cardinality({ v \in db.Vehicle :
        \E o \in db.PartsOrder : \E p \in db.Part :
            /\ o.vehicle_identification_number = v
            /\ p.order_number = o.order_number
            /\ p.status # "Installed" })

\* count_cars_with_pending_parts: COUNT(DISTINCT VIN) over Vehicle JOIN
\* PartsOrder JOIN Part
CountCarsWithPendingParts(db) ==
    Cardinality({ v \in db.Vehicle :
        /\ \E o \in db.PartsOrder : \E p \in db.Part :
              /\ o.vehicle_identification_number = v
              /\ p.order_number = o.order_number
              /\ p.status # "Installed"
        /\ NotInSaleTransaction(db, v) })

\* faulty variant: the NOT EXISTS on pending parts forgotten
CountAvailableCarsAnyParts(db) ==
    Cardinality({ v \in db.Vehicle : NotInSaleTransaction(db, v) })

\* count_available_cars: COUNT(DISTINCT VIN) over Vehicle LEFT JOIN PartsOrder
CountAvailableCars(db) ==
    Cardinality({ v \in db.Vehicle :
        ~HasPendingPart(db, v) /\ NotInSaleTransaction(db, v) })

\* get_vehicle_counts: the two counts of the search page
GetVehicleCounts ==
    /\ last' = [op |-> "get_vehicle_counts",
                ret |-> << CountAvailableCars(DB), CountCarsWithPendingParts(DB) >>]
    /\ UNCHANGED <<Vehicle, PurchaseTransaction, VehicleColor, ui, Vendor, PartsOrder,
                   Part, custVars, SaleTransaction, sess>>

---------------------------------------------------------------------------
(* The store after the demo load: two vehicles, one vendor, two customers  *)

Init ==
    /\ Vehicle = {"V1", "V2"}
    /\ Vendor = {"Acme"}
    /\ PartsOrder = {}
    /\ Part = {}
    /\ Customer = {[id |-> 1, email |-> "a@x"], [id |-> 2, email |-> "b@x"]}
    /\ IndividualCustomer = {[customer_id |-> 1, social_security_number |-> "111"]}
    /\ BusinessCustomer = {[customer_id |-> 2, tax_identification_number |-> "T1"]}
    /\ last_insert_id = 2
    /\ SaleTransaction = {}
    /\ PurchaseTransaction =
          {[vehicle_identification_number |-> "V1", customer_id |-> 1,
            purchase_price |-> 10000000, purchased_on |-> 1],
           [vehicle_identification_number |-> "V2", customer_id |-> 2,
            purchase_price |-> 8000000, purchased_on |-> 1]}
    /\ VehicleColor = {[vehicle_identification_number |-> "V1", color_name |-> "Red"],
                       [vehicle_identification_number |-> "V2", color_name |-> "Blue"]}
    /\ ui = NoSelection
    /\ sess = [s \in Sessions |-> IdleSession]
    /\ last = NoCall

\* The calls on parts orders, one after another
NextParts ==
    \/ \E vin \in VINs, vendor_name \in VendorNames, parts \in PartLists :
          AddPartsOrder(vin, vendor_name, parts)
    \/ \E o \in OrderNumberInputs, p \in PartNumbers, s \in StatusInputs :
          UpdatePartStatus(o, p, s)
    \/ \E s \in Statuses, p \in PartNumbers, o \in OrderNumberInputs :
          UpdateStatus(s, p, o)

SpecParts == Init /\ [][NextParts]_vars


\* The calls on customers, one after another
NextCustomers ==
    \E customer_type \in CustomerTypes, email \in Emails, ssn \in SSNs, tax \in TaxIds :
        AddCustomer(customer_type, email, ssn, tax)

SpecCustomers == Init /\ [][NextCustomers]_vars

\* The calls that add vehicles, one after another
NextVehicles ==
    \E vin \in NewVINs, color \in ColorLists, customer_id \in CustomerIds,
       purchase_price \in PurchasePrices :
        AddVehicleAndRelatedData(vin, color, customer_id, purchase_price, 2)

SpecVehicles == Init /\ [][NextVehicles]_vars

\* The store changes, one call after another, and the listing query on what
\* they leave
NextSearch ==
    \/ \E vin \in {"V1", "V2"}, parts \in StorePartLists :
          AddPartsOrder(vin, "Acme", parts)
    \/ \E vin \in {"V1", "V2"}, i \in StoreSaleInputs :
          RecordSale(vin, i.customer_id, i.username, i.sold_on, i.sale_price)
    \/ \E f \in FilterInputs, role \in RoleInputs, vehicle_status \in VehicleStatusInputs :
          Search(f, role, vehicle_status)
    \/ \E vin \in VINs : GetVehicleDetailsForSale(vin)

SpecSearch == Init /\ [][NextSearch]_vars

\* The store changes, one call after another, and the detail queries and
\* counts on what they leave
NextDetails ==
    \/ \E vin \in {"V1", "V2"}, parts \in StorePartLists :
          AddPartsOrder(vin, "Acme", parts)
    \/ \E vin \in {"V1", "V2"}, i \in StoreSaleInputs :
          RecordSale(vin, i.customer_id, i.username, i.sold_on, i.sale_price)
    \/ \E vin \in VINs \cup {""}, role \in RoleInputs :
          GetVehicleDetailsForPublic(vin, role)
    \/ \E vin \in VINs \cup {""}, role \in RoleInputs :
          GetVehicleDetails(vin, role)
    \/ GetVehicleCounts

SpecDetails == Init /\ [][NextDetails]_vars

\* record_sale calls of two connections, statement by statement
NextSales ==
    \/ \E s \in Sessions, vin \in VINs, i \in SaleInputs :
          RecordSaleInsert(s, vin, i.customer_id, i.username, i.sold_on, i.sale_price)
    \/ \E s \in Sessions : RecordSaleCommit(s)

SpecSales == Init /\ [][NextSales]_vars

\* add_parts_order calls of two connections, statement by statement
NextOrders ==
    \/ \E s \in Sessions, vin \in VINs, parts \in RacePartLists :
          AddPartsOrderCount(s, vin, "Acme", parts)
    \/ \E s \in Sessions : AddPartsOrderInsertOrder(s)
    \/ \E s \in Sessions : AddPartsOrderInsertParts(s)
    \/ \E s \in Sessions : AddPartsOrderCommit(s)
    \/ \E s \in Sessions : AddPartsOrderReturn(s)

SpecOrders == Init /\ [][NextOrders]_vars

---------------------------------------------------------------------------
(* Properties of the calls on parts orders (checked under SpecParts)       *)

\* the Part state machine of the data model
LegalTransitions ==
    { <<"Ordered", "Received">>, <<"Ordered", "Installed">>, <<"Received", "Installed">> }

SamePart(p, q) ==
    /\ p.order_number = q.order_number
    /\ p.vendor_parts_number = q.vendor_parts_number

\* k zero-padded to three digits, k < 1000
Pad3(k) == << k \div 100, (k \div 10) % 10, k % 10 >>

RECURSIVE SumCost(_)
\* the sum of unit_price * quantity over a set of Part rows
SumCost(rows) ==
    IF rows = {} THEN 0
    ELSE LET r == CHOOSE x \in rows : TRUE
         IN  r.unit_price * r.quantity + SumCost(rows \ {r})

PartsOf(order_number) == { p \in Part : p.order_number = order_number }

\* C1: every Part's status is Ordered, Received or Installed, and in every step
\* a part's status stays or advances along a legal transition: never back from
\* Received to Ordered, never away from Installed.
C1_StatusOnlyAdvances ==
    /\ [](\A p \in Part : p.status \in Statuses)
    /\ [][\A p \in Part : \A q \in Part' :
            SamePart(p, q) =>
                (q.status = p.status \/ <<p.status, q.status>> \in LegalTransitions)]_vars

\* C2: update_part_status returns True and stores new_status exactly when the
\* part exists and (current, new) is a legal transition; otherwise it returns
\* False and the Part table is unchanged.  Stated of the call on every reachable
\* Part table, and of every step the call takes.
C2_UpdatePartStatusContract ==
    /\ [](\A o \in OrderNumberInputs, n \in PartNumbers, s \in StatusInputs :
            LET found == { p \in Part : p.order_number = o /\ p.vendor_parts_number = n }
                r == UpdatePartStatusResult(Part, o, n, s)
            IN  IF found # {} /\ \A p \in found : <<p.status, s>> \in LegalTransitions
                THEN /\ r.ret = TRUE
                     /\ r.parts = (Part \ found) \cup { [p EXCEPT !.status = s] : p \in found }
                ELSE /\ r.ret = FALSE
                     /\ r.parts = Part)
    /\ [][last'.op = "update_part_status" =>
            IF last'.ret
            THEN \E p \in Part, s \in Statuses :
                    /\ <<p.status, s>> \in LegalTransitions
                    /\ Part' = (Part \ {p}) \cup {[p EXCEPT !.status = s]}
            ELSE Part' = Part]_vars

\* C2 witness: update_part_status has just returned True and a part is Installed
C2_Witness ==
    /\ last.op = "update_part_status"
    /\ last.ret = TRUE
    /\ \E p \in Part : p.status = "Installed" /\ p.vendor_parts_number = "p1"

\* C3: update_status returns False and leaves the Part table unchanged when the
\* part does not exist or the transition from its current status to new_status
\* is not a legal one.
C3_UpdateStatusValidates ==
    [][last'.op = "update_status" =>
       \A s \in Statuses, n \in PartNumbers, o \in OrderNumberInputs :
         UpdateStatus(s, n, o) =>
            LET found == { p \in Part : p.order_number = o /\ p.vendor_parts_number = n }
            IN  (found = {} \/ \E p \in found : <<p.status, s>> \notin LegalTransitions)
                    => (last'.ret = FALSE /\ Part' = Part)]_vars

\* C4: the order numbers stored for a VIN are exactly {VIN}-001 .. {VIN}-n, one
\* row each, where n is the number of its orders.
C4_OrderNumbersSequential ==
    \A v \in VINs :
        LET mine == { o \in PartsOrder : o.vehicle_identification_number = v }
            n == Cardinality(mine)
        IN  /\ { o.order_number : o \in mine } = { [vin |-> v, seq |-> Pad3(k)] : k \in 1..n }
            /\ Cardinality({ o.order_number : o \in mine }) = n

\* C4 witness: a second add_parts_order for V1 has just succeeded
C4_Witness ==
    /\ last.op = "add_parts_order"
    /\ last.ret = TRUE
    /\ Cardinality({ o \in PartsOrder : o.vehicle_identification_number = "V1" }) = 2

\* C6: every PartsOrder row's total_cost is the sum of unit_price * quantity over
\* the Part rows of that order, rounded to two decimals.
C6_TotalCostIsSumOfParts ==
    \A o \in PartsOrder : o.total_cost = Round2(SumCost(PartsOf(o.order_number)))

\* C6 witness: an order of two parts, one of them updated since it was added
C6_Witness ==
    /\ last.op = "update_status"
    /\ last.ret = TRUE
    /\ \E o \in PartsOrder :
          /\ Cardinality(PartsOf(o.order_number)) = 2
          /\ \E p \in PartsOf(o.order_number) :
                p.vendor_parts_number = "p2" /\ p.status = "Installed"

\* C7: add_parts_order returns False and persists nothing of the call, or returns
\* True and persists its PartsOrder row and one Part row for every supplied part;
\* it does not return True when two supplied parts share a vendor part number.
C7_AddPartsOrderAllOrNothing ==
    [][last'.op = "add_parts_order" =>
       IF last'.ret = FALSE
       THEN PartsOrder' = PartsOrder /\ Part' = Part
       ELSE \A v \in VINs, vn \in VendorNames, ps \in PartLists :
              AddPartsOrder(v, vn, ps) =>
                 /\ \A i, j \in DOMAIN ps :
                       ps[i].vendor_part_number = ps[j].vendor_part_number => i = j
                 /\ \E row \in PartsOrder' \ PartsOrder :
                       /\ PartsOrder' = PartsOrder \cup {row}
                       /\ row.vehicle_identification_number = v
                       /\ row.name = vn
                       /\ Part' = Part \cup
                             { [order_number |-> row.order_number,
                                vendor_parts_number |-> ps[i].vendor_part_number,
                                quantity |-> ps[i].quantity,
                                status |-> ps[i].part_status,
                                unit_price |-> ps[i].unit_price] : i \in DOMAIN ps }
                       /\ Cardinality(Part' \ Part) = Len(ps)]_vars

\* C7 witness: a call has just failed while an earlier order of two parts stands
C7_Witness ==
    /\ last.op = "add_parts_order"
    /\ last.ret = FALSE
    /\ \E o \in PartsOrder : Cardinality(PartsOf(o.order_number)) = 2

---------------------------------------------------------------------------
(* Properties of add_customer (checked under SpecCustomers)                *)

SpecializationsOf(id) ==
    Cardinality({ i \in IndividualCustomer : i.customer_id = id })
        + Cardinality({ b \in BusinessCustomer : b.customer_id = id })

\* C8: every Customer row has exactly one specialization row, an
\* IndividualCustomer or a BusinessCustomer keyed by its id, whatever the
\* customer_type arguments of the add_customer calls were.
C8_ExactlyOneSpecialization ==
    \A c \in Customer : SpecializationsOf(c.id) = 1

\* C9: add_customer for an Individual whose SSN, or a Business whose tax ID, is
\* already stored returns None and leaves the three customer tables as they were.
C9_DuplicateKeyRollsBack ==
    [][\A t \in CustomerTypes, e \in Emails, n \in SSNs, x \in TaxIds :
         ( /\ AddCustomer(t, e, n, x)
           /\ \/ t = "Individual"
                 /\ \E i \in IndividualCustomer : i.social_security_number = n
              \/ t = "Business"
                 /\ \E b \in BusinessCustomer : b.tax_identification_number = x )
         => /\ last'.ret = None
            /\ Customer' = Customer
            /\ IndividualCustomer' = IndividualCustomer
            /\ BusinessCustomer' = BusinessCustomer]_vars

\* C9 witness: a call has just returned None after an earlier call stored a
\* second individual
C9_Witness ==
    /\ last.op = "add_customer"
    /\ last.ret = None
    /\ Cardinality(IndividualCustomer) = 2

---------------------------------------------------------------------------
(* Properties of record_sale (checked under SpecSales)                     *)

SalesOf(vin) == { t \in SaleTransaction : t.vehicle_identification_number = vin }

---------------------------------------------------------------------------
(* Properties of concurrent add_parts_order calls (checked under SpecOrders) *)

\* C5: when two calls for the same VIN have read the same count of existing
\* orders, they computed the same order number, and they do not both succeed
\* unless two PartsOrder rows carry that order number.
C5_SameCountCollides ==
    \A s, t \in Sessions :
        ( /\ s # t
          /\ sess[s].pc = "returned"
          /\ sess[t].pc = "returned"
          /\ sess[s].vin = sess[t].vin
          /\ sess[s].count = sess[t].count )
        => /\ sess[s].order_number = sess[t].order_number
           /\ \/ sess[s].ret = FALSE
              \/ sess[t].ret = FALSE
              \/ Cardinality({ o \in PartsOrder :
                                 o.order_number = sess[s].order_number }) >= 2

\* C5 witness: both calls read count 0 for V1; one stored V1-001, the other
\* collided and returned False
C5_Witness ==
    /\ sess["s1"].pc = "returned"
    /\ sess["s2"].pc = "returned"
    /\ sess["s1"].vin = "V1"
    /\ sess["s2"].vin = "V1"
    /\ sess["s1"].count = 0
    /\ sess["s2"].count = 0
    /\ sess["s1"].ret = TRUE
    /\ sess["s2"].ret = FALSE
    /\ \E o \in PartsOrder : o.order_number = sess["s2"].order_number


---------------------------------------------------------------------------
(* Properties of add_vehicle_and_related_data (checked under SpecVehicles) *)

PurchasesOf(vin) ==
    { t \in PurchaseTransaction : t.vehicle_identification_number = vin }

\* C11: add_vehicle_and_related_data returns True exactly when the call has
\* committed the Vehicle row, a VehicleColor row for every requested colour and
\* the PurchaseTransaction row; in every other case it returns False.
C11_TrueIffAllInserted ==
    [][last'.op = "add_vehicle_and_related_data" =>
       \A vin \in NewVINs, color \in ColorLists, customer_id \in CustomerIds,
          purchase_price \in PurchasePrices :
          AddVehicleAndRelatedData(vin, color, customer_id, purchase_price, 2) =>
             /\ last'.ret \in BOOLEAN
             /\ last'.ret = TRUE <=>
                  /\ vin \in Vehicle' \ Vehicle
                  /\ \A i \in DOMAIN color :
                        [vehicle_identification_number |-> vin, color_name |-> color[i]]
                            \in VehicleColor' \ VehicleColor
                  /\ customer_id # None
                  /\ PurchaseRow(vin, customer_id, purchase_price, 2)
                        \in PurchaseTransaction' \ PurchaseTransaction]_vars

\* C11 witness: a call has returned True for V3 with two colours; the vehicle,
\* both colours and the purchase are stored
C11_Witness ==
    /\ last.op = "add_vehicle_and_related_data"
    /\ last.ret = TRUE
    /\ last.vin = "V3"
    /\ "V3" \in Vehicle
    /\ Cardinality({ c \in VehicleColor : c.vehicle_identification_number = "V3" }) = 2
    /\ PurchasesOf("V3") # {}

\* C12: every Vehicle row has exactly one PurchaseTransaction row.
C12_EveryVehicleHasOnePurchase ==
    \A vin \in Vehicle : Cardinality(PurchasesOf(vin)) = 1

---------------------------------------------------------------------------
(* Properties of search_vehicles (checked under SpecSearch)                *)

\* the VINs of the rows a search has returned
ReturnedVINs == { last.ret.rows[i].VIN : i \in DOMAIN last.ret.rows }

SoldVINs == { t.vehicle_identification_number : t \in SaleTransaction }

\* the vehicles that have a part whose status is not Installed
PendingVINs ==
    { o.vehicle_identification_number :
        o \in { x \in PartsOrder : \E p \in PartsOf(x.order_number) : p.status # "Installed" } }

\* C13: whatever the filters, a search with role Public or Salesperson returns
\* no vehicle that has a SaleTransaction and none that has a part whose status
\* is not Installed.
C13_PublicSeesOnlyAvailable ==
    (last.op = "search_vehicles" /\ last.role \in {"Public", "Salesperson"}) =>
        /\ last.ret.raised = FALSE
        /\ ReturnedVINs \cap SoldVINs = {}
        /\ ReturnedVINs \cap PendingVINs = {}

\* C13 witness: a Public search without filters has returned V2 alone, whose
\* only part is Installed, while V1 has a part that is not
C13_Witness ==
    /\ last.op = "search_vehicles"
    /\ last.role = "Public"
    /\ last.filters = NoFilter
    /\ ReturnedVINs = {"V2"}
    /\ "V1" \in PendingVINs
    /\ \E o \in PartsOrder : o.vehicle_identification_number = "V2"

\* C14: with role Owner or Manager, vehicle_status "Sold" and no other filter,
\* the search returns exactly the VINs that have a SaleTransaction, one row
\* each, pending parts or not.
C14_SoldFilterReturnsSold ==
    (/\ last.op = "search_vehicles"
     /\ last.role \in {"Owner", "Manager"}
     /\ last.vehicle_status = "Sold"
     /\ last.filters = NoFilter) =>
        /\ ReturnedVINs = SoldVINs
        /\ Len(last.ret.rows) = Cardinality(SoldVINs)

\* C14 witness: an Owner search for sold vehicles has returned V1, which is
\* sold and has a part that is not Installed
C14_Witness ==
    /\ last.op = "search_vehicles"
    /\ last.role = "Owner"
    /\ last.vehicle_status = "Sold"
    /\ last.filters = NoFilter
    /\ ReturnedVINs = {"V1"}
    /\ "V1" \in PendingVINs
    /\ "V2" \in Vehicle

\* C15: the columns of a search result are fixed by the role: Public and
\* Salesperson get neither PurchasePrice nor TotalPartsCost, Inventory clerk
\* gets both but not SalePrice, Manager and Owner get all thirteen columns;
\* every row has exactly the columns of its result.
C15_ColumnsByRole ==
    (last.op = "search_vehicles" /\ last.role \in KnownRoles) =>
        LET columns == { last.ret.columns[i] : i \in DOMAIN last.ret.columns } IN
        /\ \A i \in DOMAIN last.ret.rows : DOMAIN last.ret.rows[i] = columns
        /\ last.role \in {"Public", "Salesperson"} =>
              "PurchasePrice" \notin columns /\ "TotalPartsCost" \notin columns
        /\ last.role = "Inventory clerk" =>
              /\ "PurchasePrice" \in columns
              /\ "TotalPartsCost" \in columns
              /\ "SalePrice" \notin columns
        /\ last.role \in {"Manager", "Owner"} =>
              columns = { "VIN", "VehicleType", "Manufacturer", "Model", "Year",
                          "FuelType", "Colors", "Horsepower", "SalePrice",
                          "PurchasePrice", "PurchaseDate", "TotalPartsCost",
                          "Description" }

\* C15 witness: an Inventory clerk search with filters has returned a row
C15_Witness ==
    /\ last.op = "search_vehicles"
    /\ last.role = "Inventory clerk"
    /\ last.filters # NoFilter
    /\ Len(last.ret.rows) > 0
    /\ PartsOrder # {}

RECURSIVE SumOrders(_)
\* the sum of total_cost over a set of PartsOrder rows, 0 if there is none
SumOrders(rows) ==
    IF rows = {} THEN 0
    ELSE LET r == CHOOSE x \in rows : TRUE IN r.total_cost + SumOrders(rows \ {r})

\* shown is the price the specification gives for the vehicle: the recorded
\* sale_price when it is sold; otherwise the multiple of a cent nearest to
\* 1.25 * purchase_price + 1.1 * parts cost (compared in 1/100 of a mill)
PriceIsRight(vin, shown) ==
    IF vin \in SoldVINs
    THEN \E t \in SalesOf(vin) : shown = << t.sale_price >>
    ELSE \E pt \in PurchasesOf(vin) :
            LET exact == 125 * pt.purchase_price
                         + 110 * SumOrders({ o \in PartsOrder :
                                              o.vehicle_identification_number = vin })
            IN  /\ Len(shown) = 1
                /\ shown[1] % 10 = 0
                /\ 100 * shown[1] - exact <= 500
                /\ exact - 100 * shown[1] < 500

\* C17: the SalePrice the listing and get_vehicle_details_for_sale return is
\* round(1.25 * purchase_price + 1.1 * parts cost, 2) for an unsold vehicle and
\* the recorded sale_price for a sold one; no later step changes the SalePrice
\* of a sold vehicle.
C17_SalePriceFormula ==
    /\ [](last.op = "search_vehicles" =>
            \A i \in DOMAIN last.ret.rows :
                "SalePrice" \in DOMAIN last.ret.rows[i] =>
                    PriceIsRight(last.ret.rows[i].VIN, last.ret.rows[i].SalePrice))
    /\ []((last.op = "get_vehicle_details_for_sale" /\ last.ret # None) =>
            PriceIsRight(last.vin, last.ret[1].SalePrice))
    /\ [][\A vin \in SoldVINs : SalePriceOf(DB', vin) = SalePriceOf(DB, vin)]_vars

\* C17 witness: a Manager search shows the unsold V1, bought at 10,000.00 with
\* one parts order of 500.00, at 13,050.00
C17_Witness ==
    /\ last.op = "search_vehicles"
    /\ last.role = "Manager"
    /\ "V1" \notin SoldVINs
    /\ \E pt \in PurchasesOf("V1") : pt.purchase_price = 10000000
    /\ SumOrders({ o \in PartsOrder : o.vehicle_identification_number = "V1" }) = 500000
    /\ \E i \in DOMAIN last.ret.rows :
          last.ret.rows[i].VIN = "V1" /\ last.ret.rows[i].SalePrice = << 13050000 >>

---------------------------------------------------------------------------
(* Properties of the detail queries and the counts (checked under          *)
(* SpecDetails)                                                            *)

\* the attributes a detail query has returned
ReturnedAttributes == { last.ret[i].Attribute : i \in DOMAIN last.ret }

\* C16: the detail queries project by role as the listing does: for Inventory
\* clerk the attributes of a vehicle include PurchasePrice and TotalPartsCost
\* but not SalePrice; for Public and Salesperson they include neither
\* PurchasePrice nor TotalPartsCost.
C16_DetailColumnsByRole ==
    (last.op \in {"get_vehicle_details_for_public", "get_vehicle_details"}) =>
        /\ (last.role = "Inventory clerk" /\ Len(last.ret) > 0) =>
              /\ "PurchasePrice" \in ReturnedAttributes
              /\ "TotalPartsCost" \in ReturnedAttributes
              /\ "SalePrice" \notin ReturnedAttributes
        /\ last.role \in {"Public", "Salesperson"} =>
              /\ "PurchasePrice" \notin ReturnedAttributes
              /\ "TotalPartsCost" \notin ReturnedAttributes

\* C18: count_available_cars is the number of vehicles with no SaleTransaction
\* and no part whose status is not Installed; count_cars_with_pending_parts is
\* the number of unsold vehicles with such a part.
C18_CountsMatchDefinitions ==
    last.op = "get_vehicle_counts" =>
        /\ last.ret[1] = Cardinality(Vehicle \ (SoldVINs \cup PendingVINs))
        /\ last.ret[2] = Cardinality((Vehicle \cap PendingVINs) \ SoldVINs)

\* C18 witness: the counts are 1 and 1 while V1 has a pending part and V2 has
\* an order whose part is Installed
C18_Witness ==
    /\ last.op = "get_vehicle_counts"
    /\ last.ret = <<1, 1>>
    /\ "V1" \in PendingVINs
    /\ SoldVINs = {}
    /\ \E o \in PartsOrder : o.vehicle_identification_number = "V2"

---------------------------------------------------------------------------
(* The pages of one browser session: ui is st.session_state, and each action
   is one run of a page's script with the button it handles pressed *)

\* the roles a login can give the session
PageRoles == {"Owner", "Salesperson", "Inventory clerk"}

\* the parts the Add Parts Order form submits: one part, Ordered or Installed
PagePartLists ==
    { << [vendor_part_number |-> "p1", unit_price |-> 250000, quantity |-> 2,
          part_status |-> "Ordered"] >>,
      << [vendor_part_number |-> "p2", unit_price |-> 2750, quantity |-> 3,
          part_status |-> "Installed"] >> }

\* the pages the sidebar offers a role
PagesOfRole(role) ==
    IF role = "Owner" THEN {"details", "add_parts", "add_vehicle", "sell_vehicle"}
    ELSE IF role = "Inventory clerk" THEN {"details", "add_parts", "add_vehicle"}
    ELSE IF role = "Salesperson" THEN {"details", "sell_vehicle"}
    ELSE IF role = "Manager" THEN {"details"}
    ELSE {}

\* get_vehicle_parts: the parts of the vehicle's orders, joined to the vendor
GetVehicleParts(db, vendors, vin) ==
    { p \in db.Part :
        \E o \in db.PartsOrder : /\ o.order_number = p.order_number
                                 /\ o.vehicle_identification_number = vin
                                 /\ o.name \in vendors }

\* the status choices the details page offers for a part
StatusOptions(status) ==
    IF status = "Ordered" THEN {"Received", "Installed"}
    ELSE IF status = "Received" THEN {"Installed"}
    ELSE {}

\* one run of the details page: for the Owner looking at an unsold vehicle it
\* stores whether every part shown is Installed
DetailsPage(db, vendors, u) ==
    IF /\ u.selected_vin # None
       /\ u.role = "Owner"
       /\ Len(GetVehicleDetailsResult(db, u.selected_vin[1], u.role)) > 0
    THEN [u EXCEPT !.all_parts_installed =
              \A p \in GetVehicleParts(db, vendors, u.selected_vin[1]) :
                  p.status = "Installed"]
    ELSE u

\* display_navigation, run at the start of every script run: a logged-in
\* session gets the Reports pages when show_reports is set, a logged-out one
\* has show_reports cleared
DisplayNavigation(u) ==
    IF u.logged_in
    THEN [u EXCEPT !.reports_in_navigation = u.show_reports]
    ELSE [u EXCEPT !.show_reports = FALSE, !.reports_in_navigation = FALSE]

\* the start of search_page: show_reports is cleared unless a Manager or Owner
\* is logged in
SearchPageStart(u) ==
    IF ~u.logged_in \/ u.role \notin {"Manager", "Owner"}
    THEN [u EXCEPT !.show_reports = FALSE]
    ELSE u

\* a script run that ends on the search page, the default page
RunSearchPage(u) == SearchPageStart(DisplayNavigation(u))

\* Log in page, offered while logged out: the session takes the role of the
\* account and keeps the rest of its state; st.rerun() then runs the script
Login(role) ==
    /\ ~ui.logged_in
    /\ ui' = RunSearchPage([DisplayNavigation(ui) EXCEPT !.logged_in = TRUE,
                                                         !.role = role])
    /\ last' = [op |-> "login", ret |-> TRUE, vin |-> ""]
    /\ UNCHANGED <<Vehicle, PurchaseTransaction, VehicleColor, Vendor, PartsOrder,
                   Part, custVars, SaleTransaction, sess>>

\* Log out page, offered while logged in: clear_session_state, then st.rerun()
Logout ==
    /\ ui.logged_in
    /\ ui' = RunSearchPage([DisplayNavigation(ui) EXCEPT !.logged_in = FALSE,
                                                         !.role = "Public"])
    /\ last' = [op |-> "logout", ret |-> TRUE, vin |-> "",
                show_reports |-> ui.show_reports]
    /\ UNCHANGED <<Vehicle, PurchaseTransaction, VehicleColor, Vendor, PartsOrder,
                   Part, custVars, SaleTransaction, sess>>

\* search page: search with no filter, tick a row, View Selected Details;
\* the details page then runs
ViewSelectedDetails(vin) ==
    LET ret == SearchVehicles(DB, [NoFilter EXCEPT !.role = ui.role])
    IN  /\ \E i \in DOMAIN ret.rows : ret.rows[i].VIN = vin
        /\ ui' = DetailsPage(DB, Vendor, [ui EXCEPT !.selected_vin = <<vin>>])
        /\ last' = [op |-> "view_selected_details", ret |-> TRUE, vin |-> vin]
        /\ UNCHANGED <<Vehicle, PurchaseTransaction, VehicleColor, Vendor, PartsOrder,
                       Part, custVars, SaleTransaction, sess>>

\* details page, Update button of a part shown: update_status, then the page
\* runs again
DetailsUpdateStatus(p, selected_status) ==
    /\ ui.role \in {"Inventory clerk", "Owner"}
    /\ ui.selected_vin # None
    /\ p \in GetVehicleParts(DB, Vendor, ui.selected_vin[1])
    /\ selected_status \in StatusOptions(p.status)
    /\ LET r == UpdateStatusResult(Part, selected_status, p.vendor_parts_number,
                                   p.order_number)
       IN  /\ Part' = r.parts
           /\ ui' = IF r.ret THEN DetailsPage([DB EXCEPT !.Part = r.parts], Vendor, ui)
                    ELSE ui
           /\ last' = [op |-> "update_status", ret |-> r.ret,
                       vin |-> ui.selected_vin[1]]
    /\ UNCHANGED <<Vehicle, PurchaseTransaction, VehicleColor, Vendor, PartsOrder,
                   custVars, SaleTransaction, sess>>

\* Add Parts Order page, Submit Order: the page opens only while the selected
\* vehicle is unsold; the order goes to the VIN typed in the form
AddPartsOrderPage(vin, selected_vendor, parts) ==
    /\ "add_parts" \in PagesOfRole(ui.role)
    /\ ui.selected_vin # None
    /\ GetVehicleDetailsForSaleResult(DB, ui.selected_vin[1]) # None
    /\ Cardinality(PartsOrder) < MaxOrders
    /\ LET r == AddPartsOrderResult(Vehicle, Vendor, PartsOrder, Part,
                                    vin, selected_vendor, parts)
       IN  /\ PartsOrder' = r.orders
           /\ Part' = r.parts
           /\ last' = [op |-> "add_parts_order", ret |-> r.ret, vin |-> vin]
    /\ UNCHANGED <<Vehicle, PurchaseTransaction, VehicleColor, ui, Vendor, custVars,
                   SaleTransaction, sess>>

\* Sell Vehicle page, Confirm Sale: the selected vehicle must be unsold, and
\* for the Owner the stored all_parts_installed must be set
SellVehiclePage(customer_id) ==
    /\ "sell_vehicle" \in PagesOfRole(ui.role)
    /\ ui.selected_vin # None
    /\ LET vehicle_details == GetVehicleDetailsForSaleResult(DB, ui.selected_vin[1])
       IN  /\ vehicle_details # None
           /\ ui.role = "Owner" => ui.all_parts_installed
           /\ vehicle_details[1].SalePrice # None
           /\ RecordSale(ui.selected_vin[1], customer_id, "user", 1,
                         vehicle_details[1].SalePrice[1])

NextPages ==
    \/ \E role \in PageRoles : Login(role)
    \/ Logout
    \/ \E vin \in VINs : ViewSelectedDetails(vin)
    \/ \E p \in Part, selected_status \in Statuses : DetailsUpdateStatus(p, selected_status)
    \/ \E vin \in VINs, parts \in PagePartLists : AddPartsOrderPage(vin, "Acme", parts)
    \/ SellVehiclePage(1)

SpecPages == Init /\ [][NextPages]_vars

\* C19: the Add Parts Order page never calls add_parts_order for a VIN that
\* has a SaleTransaction, whatever VIN is typed in the form.
C19_NoPartsOrderForSoldVIN ==
    [][last'.op = "add_parts_order" => last'.vin \notin SoldVINs]_vars

\* C20: the sell flow records a sale only for a vehicle that is unsold and has
\* no part in a status other than Installed at the time of sale.
C20_SaleOnlyWhenAllInstalled ==
    [][(last'.op = "record_sale" /\ SaleTransaction' # SaleTransaction)
          => /\ last'.vin \notin SoldVINs
             /\ last'.vin \notin PendingVINs]_vars

---------------------------------------------------------------------------
(* average_inventory_time_report *)

\* the VehicleType table, and its rows in ascending order of the type name
VehicleTypes == {"SUV", "Sedan", "Truck"}
TypeOrder == <<"Sedan", "SUV", "Truck">>

\* ROUND(s / n, 2) in hundredths, halves away from zero
RoundHundredths(s, n) ==
    IF s >= 0 THEN (200 * s + n) \div (2 * n)
    ELSE 0 - ((200 * (0 - s) + n) \div (2 * n))

\* the joined rows of a type: one per vehicle of the type, with the dates of
\* its purchase and sale where it has them
JoinedRows(db, type) ==
    { [vin |-> v, pt |-> JoinOne(db.PurchaseTransaction, v),
       st |-> JoinOne(db.SaleTransaction, v)] :
        v \in { x \in db.Vehicle : VehicleAttributes(x).vehicle_type = type } }

\* DATEDIFF(st.sold_on, pt.purchased_on) + 1 of the rows where it is not NULL
RECURSIVE SumInventoryDays(_)
SumInventoryDays(rows) ==
    IF rows = {} THEN 0
    ELSE LET r == CHOOSE x \in rows : TRUE
         IN  (r.st[1].sold_on - r.pt[1].purchased_on + 1) + SumInventoryDays(rows \ {r})

\* the CASE expression of a group
AvgInventoryTime(rows) ==
    LET sold == { r \in rows : r.st # <<>> }
        dated == { r \in sold : r.pt # <<>> }
    IN  IF sold = {} THEN [kind |-> "N/A", hundredths |-> 0]
        ELSE IF dated = {} THEN [kind |-> "NULL", hundredths |-> 0]
        ELSE [kind |-> "number",
              hundredths |-> RoundHundredths(SumInventoryDays(dated), Cardinality(dated))]

\* the groups of the query: the types that have a vehicle, in type order
AverageInventoryTimeReportResult(db) ==
    LET HasVehicle(type) == type \in VehicleTypes /\ JoinedRows(db, type) # {}
        types == SelectSeq(TypeOrder, HasVehicle)
    IN  [i \in 1..Len(types) |->
            [VehicleType |-> types[i],
             AvgInventoryTime |-> AvgInventoryTime(JoinedRows(db, types[i]))]]

AverageInventoryTimeReport ==
    /\ last' = [op |-> "average_inventory_time_report",
                ret |-> AverageInventoryTimeReportResult(DB),
                sold |-> SaleTransaction, vehicles |-> Vehicle]
    /\ UNCHANGED <<Vehicle, PurchaseTransaction, VehicleColor, ui, Vendor, PartsOrder,
                   Part, custVars, SaleTransaction, sess>>

\* the sale dates the report reads
ReportSaleDates == {2, 5}

NextReports ==
    \/ \E customer_id \in {None, <<1>>} :
          AddVehicleAndRelatedData("V3", <<"Red">>, customer_id, 8000000, 2)
    \/ \E vin \in {"V1", "V2", "V3"}, sale_date \in ReportSaleDates :
          RecordSale(vin, 1, "sam", sale_date, 12500000)
    \/ AverageInventoryTimeReport

SpecReports == Init /\ [][NextReports]_vars

\* the sold vehicles of a type that have a purchase
SoldOfType(type) ==
    { r \in JoinedRows(DB, type) : r.st # <<>> /\ r.pt # <<>> }

\* C21: average_inventory_time_report returns one row for every vehicle type,
\* in ascending order of the type name: a type with a sold vehicle reports the
\* mean of (days between purchase and sale + 1) over its sold vehicles, and a
\* type with no sale, also one with no vehicle at all, reports 'N/A'.
C21_OneRowPerType ==
    last.op = "average_inventory_time_report" =>
        /\ Len(last.ret) = Len(TypeOrder)
        /\ \A i \in 1..Len(TypeOrder) :
              i \in DOMAIN last.ret =>
                 /\ last.ret[i].VehicleType = TypeOrder[i]
                 /\ IF \E r \in JoinedRows(DB, TypeOrder[i]) : r.st # <<>>
                    THEN /\ last.ret[i].AvgInventoryTime.kind = "number"
                         /\ SoldOfType(TypeOrder[i]) # {} =>
                               last.ret[i].AvgInventoryTime.hundredths =
                                  RoundHundredths(SumInventoryDays(SoldOfType(TypeOrder[i])),
                                                  Cardinality(SoldOfType(TypeOrder[i])))
                    ELSE last.ret[i].AvgInventoryTime.kind = "N/A"

---------------------------------------------------------------------------
(* create_session: the context manager, one step per statement; the body of
   the with-block is add_vendor's insert *)

\* the vendor names a body inserts, and the exceptions a body raises
NewVendorNames == {"Bolt", "Nut"}
BodyErrors == {"IntegrityError", "KeyError"}

\* the ways a with-block ends
BlockExits == {"finish", "return", "raise"}

\* faulty variant: an early return is taken for an exception
CommitsOnExitFinishOnly(how) == how = "finish"

\* the generator resumes after the yield, and commits, unless the block raised
CommitsOnExit(how) == how # "raise"

InBlock(s) == sess[s].pc = "block"

\* session = SessionLocal(); yield session
SessionEnter(s) ==
    /\ sess[s].pc = "idle"
    /\ sess' = [sess EXCEPT ![s] = [pc |-> "block", pending |-> {}, log |-> <<>>,
                                    exit |-> "", exc |-> None, raised |-> None]]
    /\ last' = [op |-> "enter", session |-> s]
    /\ UNCHANGED <<Vehicle, PurchaseTransaction, VehicleColor, ui, Vendor, PartsOrder,
                   Part, custVars, SaleTransaction>>

\* the body executes an INSERT: the row stays uncommitted; a name another open
\* session has inserted is locked until that session ends
BlockInsert(s, name) ==
    /\ InBlock(s)
    /\ name \notin Vendor \cup sess[s].pending
    /\ \A t \in Sessions \ {s} :
          sess[t].pc \in {"block", "exiting", "finally"} => name \notin sess[t].pending
    /\ sess' = [sess EXCEPT ![s].pending = @ \cup {name}]
    /\ last' = [op |-> "insert", session |-> s]
    /\ UNCHANGED <<Vehicle, PurchaseTransaction, VehicleColor, ui, Vendor, PartsOrder,
                   Part, custVars, SaleTransaction>>

\* the block ends: it runs to its end, returns early, or raises e
BlockExit(s, how, e) ==
    /\ InBlock(s)
    /\ sess' = [sess EXCEPT ![s].pc = "exiting", ![s].exit = how,
                            ![s].exc = IF how = "raise" THEN <<e>> ELSE None]
    /\ last' = [op |-> "exit", session |-> s]
    /\ UNCHANGED <<Vehicle, PurchaseTransaction, VehicleColor, ui, Vendor, PartsOrder,
                   Part, custVars, SaleTransaction>>

\* session.commit()
SessionCommit(s) ==
    /\ sess[s].pc = "exiting"
    /\ CommitsOnExit(sess[s].exit)
    /\ Vendor' = Vendor \cup sess[s].pending
    /\ sess' = [sess EXCEPT ![s].pc = "finally", ![s].log = Append(@, "commit")]
    /\ last' = [op |-> "commit", session |-> s]
    /\ UNCHANGED <<Vehicle, PurchaseTransaction, VehicleColor, ui, PartsOrder,
                   Part, custVars, SaleTransaction>>

\* except Exception as e: session.rollback(); raise e
SessionExcept(s) ==
    /\ sess[s].pc = "exiting"
    /\ ~CommitsOnExit(sess[s].exit)
    /\ sess' = [sess EXCEPT ![s].pc = "finally", ![s].log = Append(@, "rollback"),
                            ![s].raised = sess[s].exc]
    /\ last' = [op |-> "rollback", session |-> s]
    /\ UNCHANGED <<Vehicle, PurchaseTransaction, VehicleColor, ui, Vendor, PartsOrder,
                   Part, custVars, SaleTransaction>>

\* finally: session.close(); the caller then sees the block's outcome
SessionClose(s) ==
    /\ sess[s].pc = "finally"
    /\ last' = [op |-> "create_session", session |-> s, exit |-> sess[s].exit,
                exc |-> sess[s].exc, raised |-> sess[s].raised,
                log |-> Append(sess[s].log, "close"), wrote |-> sess[s].pending]
    /\ sess' = [sess EXCEPT ![s] = IdleSession]
    /\ UNCHANGED <<Vehicle, PurchaseTransaction, VehicleColor, ui, Vendor, PartsOrder,
                   Part, custVars, SaleTransaction>>

NextSession ==
    \/ \E s \in Sessions : SessionEnter(s)
    \/ \E s \in Sessions, name \in NewVendorNames : BlockInsert(s, name)
    \/ \E s \in Sessions, how \in BlockExits, e \in BodyErrors : BlockExit(s, how, e)
    \/ \E s \in Sessions : SessionCommit(s)
    \/ \E s \in Sessions : SessionExcept(s)
    \/ \E s \in Sessions : SessionClose(s)

SpecSession == Init /\ [][NextSession]_vars

\* the statements after the yield run to the end once the block has ended
SpecSessionFair ==
    /\ SpecSession
    /\ \A s \in Sessions :
          WF_vars(SessionCommit(s) \/ SessionExcept(s) \/ SessionClose(s))

\* C22: a session opened by create_session is closed exactly once on every
\* exit path of the with-block: a block that ends without an exception, also
\* by an early return, has its session committed and then closed; a block that
\* raises has its session rolled back and closed and the same exception
\* raised to the caller; and once the block has ended the session is closed.
C22_ClosedOnEveryExitPath ==
    /\ [](last.op = "create_session" =>
            IF last.exit \in {"finish", "return"}
            THEN /\ last.log = <<"commit", "close">>
                 /\ last.raised = None
                 /\ last.wrote \subseteq Vendor
            ELSE /\ last.log = <<"rollback", "close">>
                 /\ last.raised # None
                 /\ last.raised = last.exc)
    /\ [][\A s \in Sessions :
            (sess[s].pc = "exiting" /\ sess[s].exit = "raise")
               => (sess'[s].pc = "exiting" \/ Vendor' = Vendor)]_vars
    /\ \A s \in Sessions : (sess[s].pc = "exiting") ~> (sess[s].pc = "idle")

\* C22 witness: a block that inserted Bolt and returned early was committed
\* and then closed
C22_Witness ==
    /\ last.op = "create_session"
    /\ last.exit = "return"
    /\ last.wrote = {"Bolt"}
    /\ "Bolt" \in Vendor
    /\ last.log = <<"commit", "close">>

---------------------------------------------------------------------------
(* add_vehicle called on its own *)

AddVehicle(vin, customer_id) ==
    /\ LET r == AddVehicleResult(Vehicle, customer_id, vin)
       IN  /\ Vehicle' = r.vehicles
           /\ last' = [op |-> "add_vehicle", ret |-> r.ret, vin |-> vin,
                       customer_id |-> customer_id]
    /\ UNCHANGED <<PurchaseTransaction, VehicleColor, ui, Vendor, PartsOrder, Part,
                   custVars, SaleTransaction, sess>>

NextAddVehicle ==
    \/ \E vin \in NewVINs, customer_id \in CustomerIds : AddVehicle(vin, customer_id)
    \/ NextVehicles

SpecAddVehicle == Init /\ [][NextAddVehicle]_vars

\* C23: whenever add_vehicle returns False, also when it is called with
\* customer_id None, the Vehicle table is the same as before the call.
C23_FalseAddsNoVehicle ==
    [][(last'.op = "add_vehicle" /\ last'.ret = FALSE) => Vehicle' = Vehicle]_vars


\* the two counts of get_vehicle_counts on the store restricted to one vehicle
CountsOfVehicle(v) ==
    LET db == [DB EXCEPT !.Vehicle = {v}]
    IN  CountAvailableCars(db) + CountCarsWithPendingParts(db)

\* C24: in every store state the two counts of get_vehicle_counts partition
\* the unsold vehicles: their sum is the number of vehicles without a
\* SaleTransaction, and no vehicle is counted in both.
C24_CountsPartitionUnsold ==
    /\ CountAvailableCars(DB) + CountCarsWithPendingParts(DB) =
          Cardinality(Vehicle \ SoldVINs)
    /\ \A v \in Vehicle : CountsOfVehicle(v) = IF v \in SoldVINs THEN 0 ELSE 1
    /\ last.op = "get_vehicle_counts" =>
          last.ret[1] + last.ret[2] = Cardinality(Vehicle \ SoldVINs)

\* C24 witness: V1 is sold with a part still pending and is in neither count,
\* V2 is available: the counts are 1 and 0
C24_Witness ==
    /\ last.op = "get_vehicle_counts"
    /\ last.ret = <<1, 0>>
    /\ "V1" \in SoldVINs \cap PendingVINs
    /\ "V2" \notin SoldVINs


\* the names in a sequence of column names
ColumnSet(columns) == { columns[i] : i \in DOMAIN columns }

\* C25: for every role other than Manager and Owner, also a role string that is
\* none of the five roles, search_vehicles returns only unsold vehicles; a role
\* outside the five sees no more rows or columns than Public does.
C25_OtherRolesSeeOnlyUnsold ==
    (last.op = "search_vehicles" /\ last.role \notin {"Manager", "Owner"}) =>
        /\ ReturnedVINs \cap SoldVINs = {}
        /\ last.role \notin KnownRoles =>
              /\ ColumnSet(last.ret.columns) \subseteq ColumnSet(ColumnsForRole("Public"))
              /\ ReturnedVINs \cap PendingVINs = {}

---------------------------------------------------------------------------
(* The listing query on vehicles of several colors *)

\* the color filters of the search form
ColorFilterInputs ==
    { NoFilter, [NoFilter EXCEPT !.color = "Red"], [NoFilter EXCEPT !.color = "Blue"],
      [NoFilter EXCEPT !.color = "Any"] }

NextColors ==
    \/ \E vin \in {"V3", "V4"}, color \in ColorLists, purchase_price \in PurchasePrices :
          AddVehicleAndRelatedData(vin, color, <<1>>, purchase_price, 2)
    \/ \E f \in ColorFilterInputs, role \in {"Public", "Owner"} : Search(f, role, "")

SpecColors == Init /\ [][NextColors]_vars

\* the colors stored for a vehicle
StoredColors(vin) ==
    { c.color_name : c \in { r \in VehicleColor : r.vehicle_identification_number = vin } }

\* C26: the Colors value of a row returned by search_vehicles lists all colors
\* stored for the vehicle in VehicleColor, with or without a color filter.
C26_ColorsListsAllStored ==
    last.op = "search_vehicles" =>
        \A i \in DOMAIN last.ret.rows :
            last.ret.rows[i].Colors = StoredColors(last.ret.rows[i].VIN)

---------------------------------------------------------------------------
(* add_new_customer: the form's customer_data handed to add_customer *)

\* what the Publish Customer button collects: the six contact entries and the
\* entries of the customer's type
ContactData ==
    [email |-> "c@x", phone |-> "555", street |-> "1 Elm", city |-> "Troy",
     state |-> "NY", postal_code |-> "12180"]

IndividualData(ssn) ==
    [customer_type |-> "Individual", email |-> ContactData.email,
     phone |-> ContactData.phone, street |-> ContactData.street,
     city |-> ContactData.city, state |-> ContactData.state,
     postal_code |-> ContactData.postal_code,
     first_name |-> "Ann", last_name |-> "Lee", social_security_number |-> ssn]

BusinessData(tax) ==
    [customer_type |-> "Business", email |-> ContactData.email,
     phone |-> ContactData.phone, street |-> ContactData.street,
     city |-> ContactData.city, state |-> ContactData.state,
     postal_code |-> ContactData.postal_code,
     business_name |-> "Cars Inc", tax_id_number |-> tax,
     primary_contact_name |-> "Bo", primary_contact_title |-> "CEO"]

CustomerDataInputs ==
    { IndividualData(ssn) : ssn \in SSNs } \cup { BusinessData(tax) : tax \in TaxIds }

\* customer_data.get(key)
Get(customer_data, key) ==
    IF key \in DOMAIN customer_data THEN customer_data[key] ELSE None

\* the parameters of add_customer as the call binds them: the fourth to ninth
\* positional arguments are email, phone, street, city, state, postal_code,
\* the fourth to ninth parameters are phone, street, city, state,
\* postal_code, email
AddCustomerArguments(customer_data) ==
    [first_name |-> customer_data.first_name,
     last_name |-> customer_data.last_name,
     phone |-> customer_data.email,
     street |-> customer_data.phone,
     city |-> customer_data.street,
     state |-> customer_data.city,
     postal_code |-> customer_data.state,
     email |-> customer_data.postal_code,
     social_security_number |-> Get(customer_data, "social_security_number"),
     tax_id_number |-> Get(customer_data, "tax_id_number")]

\* the Customer row of the INSERT, all its columns
CustomerRow(id, a) ==
    [id |-> id, email |-> a.email, phone_number |-> a.phone,
     address_street |-> a.street, address_city |-> a.city,
     address_state |-> a.state, address_postal_code |-> a.postal_code]

\* add_new_customer: customer_data["first_name"] raises KeyError when the
\* entry is missing; otherwise add_customer runs on the bound parameters
AddNewCustomerResult(customers, individuals, businesses, id, customer_type, customer_data) ==
    IF {"first_name", "last_name"} \subseteq DOMAIN customer_data
    THEN LET a == AddCustomerArguments(customer_data)
             r == AddCustomerResult(customers, individuals, businesses, id,
                                    customer_type, a.email,
                                    a.social_security_number, a.tax_id_number)
         IN  [raised |-> FALSE, called |-> TRUE, ret |-> r.ret,
              customers |-> { IF c \notin customers THEN CustomerRow(id, a) ELSE c :
                                 c \in r.customers },
              individuals |-> r.individuals, businesses |-> r.businesses]
    ELSE [raised |-> TRUE, called |-> FALSE, ret |-> None, customers |-> customers,
          individuals |-> individuals, businesses |-> businesses]

AddNewCustomer(customer_data) ==
    /\ last_insert_id < MaxCustomers
    /\ LET r == AddNewCustomerResult(Customer, IndividualCustomer, BusinessCustomer,
                                     last_insert_id + 1, customer_data.customer_type,
                                     customer_data)
       IN  /\ Customer' = r.customers
           /\ IndividualCustomer' = r.individuals
           /\ BusinessCustomer' = r.businesses
           /\ last' = [op |-> "add_new_customer", ret |-> r.ret, raised |-> r.raised,
                       customer_data |-> customer_data]
           /\ last_insert_id' = IF r.called THEN last_insert_id + 1 ELSE last_insert_id
    /\ UNCHANGED <<Vehicle, PurchaseTransaction, VehicleColor, ui, Vendor, PartsOrder,
                   Part, SaleTransaction, sess>>

NextNewCustomer ==
    \/ \E customer_data \in CustomerDataInputs : AddNewCustomer(customer_data)
    \/ NextCustomers

SpecNewCustomer == Init /\ [][NextNewCustomer]_vars

\* the key of customer_data is not yet stored
FreshKey(customer_data) ==
    IF customer_data.customer_type = "Individual"
    THEN \A i \in IndividualCustomer :
            i.social_security_number # customer_data.social_security_number
    ELSE \A b \in BusinessCustomer :
            b.tax_identification_number # customer_data.tax_id_number

\* C27: add_new_customer(customer_type, customer_data), for Individual and for
\* Business customers, creates a customer whose stored email, phone_number,
\* address_street, address_city, address_state and address_postal_code are the
\* email, phone, street, city, state and postal_code entries of customer_data,
\* and returns the new id.
C27_StoredContactEqualsData ==
    [][(last'.op = "add_new_customer" /\ FreshKey(last'.customer_data)) =>
          /\ ~last'.raised
          /\ last'.ret # None
          /\ \E c \in Customer' \ Customer :
                /\ c.id = last'.ret[1]
                /\ c.email = last'.customer_data.email
                /\ c.phone_number = last'.customer_data.phone
                /\ c.address_street = last'.customer_data.street
                /\ c.address_city = last'.customer_data.city
                /\ c.address_state = last'.customer_data.state
                /\ c.address_postal_code = last'.customer_data.postal_code]_vars

---------------------------------------------------------------------------
(* The run of the Sell Vehicle page that handles Confirm Sale, one step per
   transaction: get_vehicle_details_for_sale, then record_sale *)

\* the run reads the selected vehicle and keeps vehicle_details
SellPageRead(s) ==
    /\ sess[s].pc = "idle"
    /\ "sell_vehicle" \in PagesOfRole(ui.role)
    /\ ui.selected_vin # None
    /\ LET vehicle_details == GetVehicleDetailsForSaleResult(DB, ui.selected_vin[1])
       IN  /\ vehicle_details # None
           /\ ui.role = "Owner" => ui.all_parts_installed
           /\ vehicle_details[1].SalePrice # None
           /\ sess' = [sess EXCEPT ![s] =
                         [pc |-> "sale_ready", vin |-> ui.selected_vin[1],
                          sale_price |-> vehicle_details[1].SalePrice[1]]]
    /\ last' = [op |-> "get_vehicle_details_for_sale", ret |-> TRUE,
                vin |-> ui.selected_vin[1]]
    /\ UNCHANGED <<Vehicle, PurchaseTransaction, VehicleColor, ui, Vendor, PartsOrder,
                   Part, custVars, SaleTransaction>>

\* Confirm Sale was pressed: record_sale with the SalePrice the run has read
SellPageConfirm(s, customer_id) ==
    /\ sess[s].pc = "sale_ready"
    /\ LET row == SaleRow(sess[s].vin, customer_id, "user", 1, sess[s].sale_price)
       IN  IF SaleInsertRaises(Vehicle, Customer, SaleTransaction, row)
           THEN /\ SaleTransaction' = SaleTransaction
                /\ last' = [op |-> "record_sale", ret |-> RecordSaleOnError,
                            vin |-> sess[s].vin]
           ELSE /\ SaleTransaction' = SaleTransaction \cup {row}
                /\ last' = [op |-> "record_sale", ret |-> TRUE, vin |-> sess[s].vin]
    /\ sess' = [sess EXCEPT ![s] = IdleSession]
    /\ UNCHANGED <<Vehicle, PurchaseTransaction, VehicleColor, ui, Vendor, PartsOrder,
                   Part, custVars>>

\* the button was not pressed: the run ends
SellPageEnd(s) ==
    /\ sess[s].pc = "sale_ready"
    /\ sess' = [sess EXCEPT ![s] = IdleSession]
    /\ last' = [op |-> "sell_vehicle_page", ret |-> FALSE, vin |-> sess[s].vin]
    /\ UNCHANGED <<Vehicle, PurchaseTransaction, VehicleColor, ui, Vendor, PartsOrder,
                   Part, custVars, SaleTransaction>>

\* the browser session runs in s1; the parts orders are another user's
NextSell ==
    \/ \E role \in {"Salesperson", "Owner"} : Login(role)
    \/ Logout
    \/ \E vin \in VINs : ViewSelectedDetails(vin)
    \/ SellPageRead("s1")
    \/ SellPageConfirm("s1", 1)
    \/ SellPageEnd("s1")
    \/ \E vin \in {"V1", "V2"}, parts \in PagePartLists : AddPartsOrder(vin, "Acme", parts)

SpecSell == Init /\ [][NextSell]_vars

\* C28: the sale_price the sell flow stores is the vehicle's asking price at
\* the moment the SaleTransaction is committed, also when a parts order for
\* the vehicle was committed after the page computed SalePrice.
C28_StoredPriceIsAskingPrice ==
    [][\A t \in SaleTransaction' \ SaleTransaction :
          << t.sale_price >> = SalePriceOf(DB, t.vehicle_identification_number)]_vars

---------------------------------------------------------------------------
(* The Show Reports button and the navigation *)

\* faulty variant: the button is offered to every logged-in role
CanShowReportsAnyRole(u) == u.logged_in

\* the search page offers Show Reports to a logged-in Manager or Owner
CanShowReports(u) == u.logged_in /\ u.role \in {"Manager", "Owner"}

\* the roles of the accounts
LoginRoles == {"Inventory clerk", "Salesperson", "Manager", "Owner"}

\* a run of the search page with no button pressed
SearchPage ==
    /\ ui' = RunSearchPage(ui)
    /\ last' = [op |-> "search_page", ret |-> TRUE, vin |-> ""]
    /\ UNCHANGED <<Vehicle, PurchaseTransaction, VehicleColor, Vendor, PartsOrder,
                   Part, custVars, SaleTransaction, sess>>

\* Show Reports pressed: show_reports is toggled, then st.rerun()
ShowReports ==
    LET u == RunSearchPage(ui)
    IN  /\ CanShowReports(u)
        /\ ui' = RunSearchPage([u EXCEPT !.show_reports = ~u.show_reports])
        /\ last' = [op |-> "show_reports", ret |-> ~u.show_reports, vin |-> ""]
        /\ UNCHANGED <<Vehicle, PurchaseTransaction, VehicleColor, Vendor, PartsOrder,
                       Part, custVars, SaleTransaction, sess>>

NextNavigation ==
    \/ \E role \in LoginRoles : Login(role)
    \/ Logout
    \/ SearchPage
    \/ ShowReports
    \/ \E vin \in VINs : ViewSelectedDetails(vin)
    \/ SellVehiclePage(1)

SpecNavigation == Init /\ [][NextNavigation]_vars

\* C29: in every session state, after any sequence of logins, logouts, page
\* runs and Show Reports clicks, show_reports is set, and the Reports pages are
\* in the navigation, only while a Manager or Owner is logged in.
C29_ReportsOnlyForManagerOwner ==
    (ui.show_reports \/ ui.reports_in_navigation) =>
        (ui.logged_in /\ ui.role \in {"Manager", "Owner"})

\* C29 witness: a session with show_reports set has logged out and the flag
\* and the Reports pages are gone
C29_Witness ==
    /\ last.op = "logout"
    /\ last.show_reports
    /\ ~ui.logged_in
    /\ ~ui.show_reports
    /\ ~ui.reports_in_navigation

---------------------------------------------------------------------------
(* The VIN and status filters of the search form *)

VIN_ACCESS_ROLES == {"Inventory Clerk", "Salesperson", "Manager", "Owner"}
STATUS_ACCESS_ROLES == {"Manager", "Owner"}

has_vin_access(role) == role \in VIN_ACCESS_ROLES
has_status_access(role) == role \in STATUS_ACCESS_ROLES

\* display_search_form: the VIN and status inputs are offered to a logged-in
\* user whose role is in the access list
DisplaySearchForm ==
    LET u == RunSearchPage(ui)
    IN  /\ ui' = u
        /\ last' = [op |-> "display_search_form", role |-> u.role,
                    logged_in |-> u.logged_in, selected_vin |-> u.selected_vin,
                    vin |-> u.logged_in /\ u.role \in VIN_ACCESS_ROLES,
                    vehicle_status |-> u.logged_in /\ u.role \in STATUS_ACCESS_ROLES]
        /\ UNCHANGED <<Vehicle, PurchaseTransaction, VehicleColor, Vendor, PartsOrder,
                       Part, custVars, SaleTransaction, sess>>

NextSearchForm ==
    \/ \E role \in LoginRoles : Login(role)
    \/ Logout
    \/ ShowReports
    \/ \E vin \in VINs : ViewSelectedDetails(vin)
    \/ SellVehiclePage(1)
    \/ DisplaySearchForm

SpecSearchForm == Init /\ [][NextSearchForm]_vars

\* C30: every logged-in role other than Public that the application uses
\* (Inventory clerk, Salesperson, Manager, Owner) has access to the VIN
\* filter: has_vin_access is True and the search form offers the VIN field.
C30_LoggedInRolesHaveVin ==
    (last.op = "display_search_form" /\ last.logged_in /\ last.role \in LoginRoles) =>
        /\ has_vin_access(last.role)
        /\ last.vin

===========================================================================
